---- MODULE Spec2Model ----
(***************************************************************************)
(* Spatial text reconstruction and batch extraction engine of              *)
(* vector-tag-table: region filter, reading-order reconstructor, text      *)
(* normalizer, document validation and the batch orchestrator              *)
(* (extractTextFromAllDocuments / processDocumentExtraction /              *)
(* processTagExtraction).                                                  *)
(*                                                                         *)
(* Conventions.  A text is a sequence of characters; the bracketed         *)
(* placeholder literals of the code are written as single tokens of that   *)
(* sequence.  Coordinates and sizes are integers; a comparison against a   *)
(* decimal factor (0.5, 1.2, 2.5, 0.3) is written with both sides times    *)
(* ten.  An optional field of a record that the code leaves out is left    *)
(* out of the TLA+ record as well.                                         *)
(***************************************************************************)
EXTENDS Integers, Sequences, FiniteSets, TLC

VARIABLES
  store,            \* the application's documents: Seq of [id, name, data]
  pending,          \* batch calls still to be made: Seq of [documents, tags]
  returned,         \* result lists the finished calls resolved with
  pc,               \* position of the running extractTextFromAllDocuments
  documents,        \* its parameter: Seq of indices into store
  tags,             \* its parameter: Seq of tags
  results,          \* its local `results`
  di,               \* index of the document the for-loop is at
  documentResults,  \* processDocumentExtraction's local `documentResults`
  allTextElements,  \* processDocumentExtraction's local `allTextElements`
  ti,               \* index of the tag the inner for-loop is at
  task,             \* bytes of the buffer handed to pdfjs.getDocument
  decodeCalls,      \* indices of the documents a decode was started for
  arg,              \* input handed to the pure function (filter or normalizer)
  out,              \* its output
  heap,             \* the ArrayBuffer instances: Seq of [detached, bytes, owner]
  events,           \* reads of instances and hand-overs to pdfjs.getDocument
  logger            \* the ExtractionLogger singleton

vars == <<store, pending, returned, pc, documents, tags, results, di,
          documentResults, allTextElements, ti, task, decodeCalls, arg, out,
          heap, events, logger>>

batchVars == <<store, pending, returned, pc, documents, tags, results, di,
               documentResults, allTextElements, ti, task, decodeCalls,
               heap, events, logger>>

pureVars == <<arg, out>>

----------------------------------------------------------------------------
(* Characters and small helpers *)

SP == " "
NL == "\n"

\* JavaScript's \s restricted to the alphabet of the model
IsWhitespace(c) == c \in {SP, NL}

Abs(n) == IF n < 0 THEN -n ELSE n

Max(a, b) == IF a > b THEN a ELSE b

None == [kind |-> "none"]

\* F applied to the value of v: v is evaluated once, as the code evaluates
\* the argument of a call once
Pipe(v, F(_)) == CHOOSE r \in {F(x) : x \in {v}} : TRUE

----------------------------------------------------------------------------
(* Text normalizer: whitespace collapse, newline collapse, trim *)

\* length of the maximal run of whitespace that starts at position i of s
RECURSIVE WsRunLen(_, _)
WsRunLen(s, i) ==
  IF i > Len(s) \/ ~IsWhitespace(s[i]) THEN 0 ELSE 1 + WsRunLen(s, i + 1)

\* /\s{2}/g: only pairs of whitespace are replaced
RECURSIVE CollapsePairs(_)
CollapsePairs(s) ==
  IF s = <<>> THEN <<>>
  ELSE IF Len(s) >= 2 /\ IsWhitespace(s[1]) /\ IsWhitespace(s[2])
       THEN <<SP>> \o CollapsePairs(SubSeq(s, 3, Len(s)))
       ELSE <<s[1]>> \o CollapsePairs(Tail(s))

\* s.replace(/\s+/g, ' '): every maximal run of whitespace becomes one space
RECURSIVE CollapseWhitespace(_)
CollapseWhitespace(s) ==
  IF s = <<>> THEN <<>>
  ELSE IF IsWhitespace(s[1])
       THEN <<SP>> \o CollapseWhitespace(SubSeq(s, 1 + WsRunLen(s, 1), Len(s)))
       ELSE <<s[1]>> \o CollapseWhitespace(Tail(s))

\* number of newlines in s[i .. i+n-1]
RECURSIVE CountNewlines(_, _, _)
CountNewlines(s, i, n) ==
  IF n = 0 THEN 0
  ELSE (IF s[i] = NL THEN 1 ELSE 0) + CountNewlines(s, i + 1, n - 1)

\* s.replace(/(\n\s*){3,}/g, '\n\n'): the leftmost match starts at a newline
\* whose whitespace run holds at least three newlines; the greedy \s* of the
\* last repetition takes the match to the end of that run
RECURSIVE CollapseNewlines(_)
CollapseNewlines(s) ==
  IF s = <<>> THEN <<>>
  ELSE IF s[1] = NL /\ CountNewlines(s, 1, WsRunLen(s, 1)) >= 3
       THEN <<NL, NL>> \o CollapseNewlines(SubSeq(s, 1 + WsRunLen(s, 1), Len(s)))
       ELSE <<s[1]>> \o CollapseNewlines(Tail(s))

RECURSIVE TrimStart(_)
TrimStart(s) ==
  IF s # <<>> /\ IsWhitespace(s[1]) THEN TrimStart(Tail(s)) ELSE s

RECURSIVE TrimEnd(_)
TrimEnd(s) ==
  IF s # <<>> /\ IsWhitespace(s[Len(s)])
  THEN TrimEnd(SubSeq(s, 1, Len(s) - 1)) ELSE s

\* String.prototype.trim
Trim(s) == Pipe(Pipe(s, TrimStart), TrimEnd)

CleanupPairsOnly(s) ==
  Pipe(Pipe(Pipe(s, CollapsePairs), CollapseNewlines), Trim)

\* the clean-up chain of formatTextElements and processTagExtraction
Cleanup(s) ==
  Pipe(Pipe(Pipe(s, CollapseWhitespace), CollapseNewlines), Trim)

----------------------------------------------------------------------------
(* Spatial region filter *)

\* the right and bottom edges taken as exclusive
InRegionExclusive(element, region) ==
  /\ element.position.x >= region.x
  /\ element.position.x < (region.x + region.width)
  /\ element.position.y >= region.y
  /\ element.position.y < (region.y + region.height)

\* the predicate of the filter callback
InRegion(element, region) ==
  /\ element.position.x >= region.x
  /\ element.position.x <= (region.x + region.width)
  /\ element.position.y >= region.y
  /\ element.position.y <= (region.y + region.height)

\* Array.prototype.filter with the predicate: one pass in input order
RECURSIVE filterElementsByRegion(_, _)
filterElementsByRegion(elements, region) ==
  IF elements = <<>> THEN <<>>
  ELSE (IF InRegion(Head(elements), region) THEN <<Head(elements)>> ELSE <<>>)
         \o filterElementsByRegion(Tail(elements), region)

----------------------------------------------------------------------------
(* Reading-order reconstructor *)

\* a comparator without the grouping into lines: y first, then x
CompareYFirst(a, b) ==
  IF a.position.y # b.position.y
  THEN a.position.y - b.position.y
  ELSE a.position.x - b.position.x

\* the threshold of the line grouping taken as exclusive
CompareStrictThreshold(a, b) ==
  LET lineHeight == Max(a.height, b.height)
  IN  IF 10 * Abs(a.position.y - b.position.y) < lineHeight * 5
      THEN a.position.x - b.position.x
      ELSE a.position.y - b.position.y

\* the comparator handed to Array.prototype.sort
Compare(a, b) ==
  LET lineHeight == Max(a.height, b.height)
  IN  IF 10 * Abs(a.position.y - b.position.y) <= lineHeight * 5
      THEN a.position.x - b.position.x
      ELSE a.position.y - b.position.y

\* insert e behind the last element that does not compare greater than it
RECURSIVE InsertSorted(_, _)
InsertSorted(sorted, e) ==
  IF sorted = <<>> THEN <<e>>
  ELSE IF Compare(sorted[Len(sorted)], e) > 0
       THEN Append(InsertSorted(SubSeq(sorted, 1, Len(sorted) - 1), e),
                   sorted[Len(sorted)])
       ELSE Append(sorted, e)

\* [...elements].sort(comparator): a stable insertion sort of a copy
RECURSIVE SortElements(_)
SortElements(elements) ==
  IF elements = <<>> THEN <<>>
  ELSE Pipe(SortElements(SubSeq(elements, 1, Len(elements) - 1)),
            LAMBDA sorted : InsertSorted(sorted, elements[Len(elements)]))

\* the gap measured from the anchor of lastElement, not from its right end
SeparatorGapFromAnchor(lastElement, element) ==
  LET yDiff == Abs(element.position.y - lastElement.position.y)
      isNewLine == 10 * yDiff > element.height * 12
      isNewParagraph == 10 * yDiff > element.height * 25
      xDiff == element.position.x - lastElement.position.x
  IN  IF isNewParagraph THEN <<NL, NL>>
      ELSE IF isNewLine THEN <<NL>>
      ELSE IF 10 * xDiff > element.width * 3 THEN <<SP>>
      ELSE <<>>

\* the two thresholds of the breaks taken as inclusive
SeparatorBreakAtThreshold(lastElement, element) ==
  LET yDiff == Abs(element.position.y - lastElement.position.y)
      isNewLine == 10 * yDiff >= element.height * 12
      isNewParagraph == 10 * yDiff >= element.height * 25
      xDiff == element.position.x - (lastElement.position.x + lastElement.width)
  IN  IF isNewParagraph THEN <<NL, NL>>
      ELSE IF isNewLine THEN <<NL>>
      ELSE IF 10 * xDiff > element.width * 3 THEN <<SP>>
      ELSE <<>>

\* what the loop puts in front of element when lastElement came before it
Separator(lastElement, element) ==
  LET yDiff == Abs(element.position.y - lastElement.position.y)
      isNewLine == 10 * yDiff > element.height * 12
      isNewParagraph == 10 * yDiff > element.height * 25
      xDiff == element.position.x - (lastElement.position.x + lastElement.width)
  IN  IF isNewParagraph THEN <<NL, NL>>
      ELSE IF isNewLine THEN <<NL>>
      ELSE IF 10 * xDiff > element.width * 3 THEN <<SP>>
      ELSE <<>>

\* the concatenation loop over the sorted elements
RECURSIVE Concatenate(_)
Concatenate(sorted) ==
  IF sorted = <<>> THEN <<>>
  ELSE IF Len(sorted) = 1 THEN sorted[1].text
  ELSE Concatenate(SubSeq(sorted, 1, Len(sorted) - 1))
         \o Separator(sorted[Len(sorted) - 1], sorted[Len(sorted)])
         \o sorted[Len(sorted)].text

----------------------------------------------------------------------------
(* Byte buffers and the page decoder (pdf.js) at its boundary *)

\* items.length below which isProbablyScannedPdf answers true
ScannedThreshold == 5

Undefined == [kind |-> "undefined"]

Bytes(form, items) == [form |-> form, items |-> items]

Buffer(detached, bytes) ==
  [kind |-> "buffer", detached |-> detached, bytes |-> bytes]

\* buffer.byteLength: 0 for a detached buffer and for one without content
ByteLength(buffer) ==
  IF buffer.detached \/ buffer.bytes.form = "empty" THEN 0 ELSE 1

\* new Uint8Array(buffer, byteOffset, length) throws a TypeError on a detached
\* buffer and a RangeError when the view does not fit into the buffer
Uint8ArrayThrows(buffer, byteOffset, length) ==
  buffer.detached \/ byteOffset + length > ByteLength(buffer)

\* try { new Uint8Array(buffer, 0, 1); return false } catch { return true }
isArrayBufferDetached(buffer) == Uint8ArrayThrows(buffer, 0, 1)

\* cloneArrayBuffer: new Uint8Array(buffer) throws on a detached buffer,
\* otherwise the clone is a fresh buffer with the same bytes
cloneArrayBuffer(buffer) ==
  IF buffer.detached
  THEN [thrown |-> TRUE]
  ELSE [thrown |-> FALSE, value |-> Buffer(FALSE, buffer.bytes)]

\* text of the k-th item of a page: item 1 is an empty end-of-line item,
\* item 4 is a blank, the others are letters
ItemStr(k) ==
  IF k = 1 THEN <<>>
  ELSE IF k = 4 THEN <<SP>>
  ELSE IF k % 2 = 0 THEN <<"a">> ELSE <<"b">>

\* the k-th item the decoder reports for a page: three items a row, the
\* rows at 0, 15 and then every 35 below the top of a page 100 high
PageItem(k) ==
  LET col == (k - 2) % 3
      row == (k - 2) \div 3
      top == IF row = 0 THEN 0 ELSE 15 + 35 * (row - 1)
  IN  [str |-> ItemStr(k),
       transform |-> <<10, 0, 0, 10, 20 * col, 100 - top>>,
       width |-> 5,
       fontName |-> "g_d0_f1"]

\* the decoder's view of the bytes of a buffer
LoadRejects(bytes) == bytes.form \in {"empty", "garbage"}
GetPageRejects(bytes) == bytes.form = "badpage"
GetTextContentRejects(bytes) == bytes.form = "badtext"
TextContentItems(bytes) == [k \in 1..bytes.items |-> PageItem(k)]
ViewportHeight(bytes) == 100

\* the stage (pc) at which the decoder rejects for these bytes
RejectsAt(stage, bytes) ==
  \/ stage = "load" /\ LoadRejects(bytes)
  \/ stage = "page" /\ GetPageRejects(bytes)
  \/ stage = "text" /\ GetTextContentRejects(bytes)

\* Math.sqrt on the squares the model meets
Sqrt(n) == CHOOSE r \in 0..n : r * r = n

\* the loop of extractTextElementsFromPage over textContent.items
RECURSIVE TextElementsOf(_, _)
TextElementsOf(items, viewportHeight) ==
  IF items = <<>> THEN <<>>
  ELSE LET textItem == Head(items)
           tx == textItem.transform
           fontSize == Sqrt((tx[3] * tx[3]) + (tx[4] * tx[4]))
           rest == TextElementsOf(Tail(items), viewportHeight)
       IN  IF textItem.str = <<>> THEN rest
           ELSE <<[text |-> textItem.str,
                   position |-> [x |-> tx[5], y |-> viewportHeight - tx[6]],
                   width |-> textItem.width,
                   height |-> fontSize,
                   fontSize |-> fontSize,
                   fontName |-> textItem.fontName]>> \o rest

----------------------------------------------------------------------------
(* The diagnostic logger *)

\* The timestamps (performance.now()) and the details objects of the steps
\* are not kept: a step is its name, startTime and endTime are marks.

\* reset(): this.metadata = { processingSteps: [] }
EmptyMetadata == [processingSteps |-> <<>>]

\* the singleton after construction: disabled, no step
ExtractionLogger == [isEnabled |-> FALSE, metadata |-> EmptyMetadata]

reset(lg) == [lg EXCEPT !.metadata = EmptyMetadata]

enable(lg) == reset([lg EXCEPT !.isEnabled = TRUE])

disable(lg) == [lg EXCEPT !.isEnabled = FALSE]

\* value of field f of record r with v put in, the field added when missing
WithField(r, f, v) == [g \in DOMAIN r \cup {f} |-> IF g = f THEN v ELSE r[g]]

logStep(lg, stepName) ==
  IF ~lg.isEnabled THEN lg
  ELSE [lg EXCEPT !.metadata.processingSteps = Append(@, stepName)]

\* logStep applied to the names of stepNames in turn
RECURSIVE logSteps(_, _)
logSteps(lg, stepNames) ==
  IF stepNames = <<>> THEN lg
  ELSE logSteps(logStep(lg, Head(stepNames)), Tail(stepNames))

startExtraction(lg) ==
  IF ~lg.isEnabled THEN lg
  ELSE logStep([lg EXCEPT !.metadata = WithField(@, "startTime", "set")],
               "Extraction process started")

finishExtraction(lg) ==
  IF ~lg.isEnabled THEN lg
  ELSE logStep([lg EXCEPT !.metadata = WithField(@, "endTime", "set")],
               "Extraction process finished")

\* this.metadata.extractedElements[tagId] = elements
storeExtractedElements(lg, tagId, elements) ==
  IF ~lg.isEnabled THEN lg
  ELSE LET old == IF "extractedElements" \in DOMAIN lg.metadata
                  THEN lg.metadata.extractedElements
                  ELSE <<>>
       IN  [lg EXCEPT !.metadata =
              WithField(@, "extractedElements",
                        [id \in DOMAIN old \cup {tagId} |->
                           IF id = tagId THEN elements ELSE old[id]])]

----------------------------------------------------------------------------
(* Records of the batch *)

\* `${document.id}-${pageNum}-${tag.id}`
ResultId(document, pageNum, tag) ==
  document.id \o <<"-">> \o <<ToString(pageNum)>> \o <<"-">> \o tag.id

Placeholder(document, tag, pageNum, text, code) ==
  [id |-> ResultId(document, pageNum, tag),
   documentId |-> document.id,
   fileName |-> document.name,
   pageNumber |-> pageNum,
   tagId |-> tag.id,
   tagName |-> tag.name,
   extractedText |-> text,
   errorCode |-> code]

\* one placeholder for the whole document
PlaceholderPerDocument(document, tagList, pageNum, text, code) ==
  IF tagList = <<>> THEN <<>>
  ELSE <<Placeholder(document, tagList[1], pageNum, text, code)>>

\* tags.map(tag => placeholder)
PlaceholderPerTag(document, tagList, pageNum, text, code) ==
  [j \in 1..Len(tagList) |-> Placeholder(document, tagList[j], pageNum, text, code)]

\* a validator whose probe is not guarded: the probe's exception lands in
\* the validator's own catch
ValidateUnguardedProbe(document) ==
  IF document = Undefined
  THEN [isValid |-> FALSE, errorMessage |-> "Document is undefined",
        errorCode |-> "INVALID_DOCUMENT"]
  ELSE IF document.data = Undefined
  THEN [isValid |-> FALSE, errorMessage |-> "Document has no data",
        errorCode |-> "NO_DATA"]
  ELSE IF Uint8ArrayThrows(document.data, 0, 1)
  THEN [isValid |-> FALSE, errorMessage |-> "Error checking document data",
        errorCode |-> "VALIDATION_ERROR"]
  ELSE [isValid |-> TRUE]

validateDocumentData(document) ==
  IF document = Undefined
  THEN [isValid |-> FALSE, errorMessage |-> "Document is undefined",
        errorCode |-> "INVALID_DOCUMENT"]
  ELSE IF document.data = Undefined
  THEN [isValid |-> FALSE, errorMessage |-> "Document has no data",
        errorCode |-> "NO_DATA"]
  ELSE IF isArrayBufferDetached(document.data)
  THEN [isValid |-> FALSE, errorMessage |-> "Document data is detached",
        errorCode |-> "BUFFER_DETACHED"]
  ELSE [isValid |-> TRUE]

\* the records of the validation branch of the batch loop
ValidationRecords(document, tagList, validation) ==
  PlaceholderPerTag(document, tagList, 1,
                    <<"[Error: ", validation.errorMessage, "]">>,
                    validation.errorCode)

\* the placeholders of a page without text carrying an empty element list
NoTextRecordsWithElements(document, tagList, pageNum) ==
  [j \in 1..Len(tagList) |->
     Placeholder(document, tagList[j], pageNum,
       <<"[No text found in document - may be scanned/image-based PDF]">>,
       "NO_TEXT_CONTENT") @@ [textElements |-> <<>>]]

\* tags.map(tag => placeholder) of the branch allTextElements.length === 0
NoTextRecords(document, tagList, pageNum) ==
  PlaceholderPerTag(document, tagList, pageNum,
    <<"[No text found in document - may be scanned/image-based PDF]">>,
    "NO_TEXT_CONTENT")

\* the empty region reported with the code of a page without text
EmptyRegionAsNoText(document, tag, pageNum) ==
  Placeholder(document, tag, pageNum,
              <<"[No text found in this region]">>, "NO_TEXT_CONTENT")
    @@ [textElements |-> <<>>]

\* the record processTagExtraction returns for an empty filter output
EmptyRegionRecord(document, tag, pageNum) ==
  Placeholder(document, tag, pageNum,
              <<"[No text found in this region]">>, "EMPTY_REGION")
    @@ [textElements |-> <<>>]

\* the cleaned text stored as it is
TextAsIs(extractedText) == extractedText

\* extractedText || '[No text found]'
OrNoTextFound(extractedText) ==
  IF extractedText = <<>> THEN <<"[No text found]">> ELSE extractedText

\* the filter at the head of processTagExtraction
TagFilter(textElements, tag) ==
  SelectSeq(textElements, LAMBDA element : InRegion(element, tag.region))

\* the record processTagExtraction returns for the sorted elements of a
\* region that holds some
SuccessRecord(document, tag, pageNum, sortedElements) ==
  [id |-> ResultId(document, pageNum, tag),
   documentId |-> document.id,
   fileName |-> document.name,
   pageNumber |-> pageNum,
   tagId |-> tag.id,
   tagName |-> tag.name,
   extractedText |->
     Pipe(Pipe(Pipe(sortedElements, Concatenate), Cleanup), OrNoTextFound),
   textElements |-> sortedElements]

\* a record that keeps the elements in the order of the filter
processTagExtractionKeepsFilterOrder(document, tag, pageNum, textElements) ==
  Pipe(TagFilter(textElements, tag),
       LAMBDA textElementsInRegion :
         IF Len(textElementsInRegion) = 0
         THEN EmptyRegionRecord(document, tag, pageNum)
         ELSE [SuccessRecord(document, tag, pageNum,
                             SortElements(textElementsInRegion))
                 EXCEPT !.textElements = textElementsInRegion])

processTagExtraction(document, tag, pageNum, textElements) ==
  Pipe(TagFilter(textElements, tag),
       LAMBDA textElementsInRegion :
         IF Len(textElementsInRegion) = 0
         THEN EmptyRegionRecord(document, tag, pageNum)
         ELSE Pipe(SortElements(textElementsInRegion),
                   LAMBDA sortedElements :
                     SuccessRecord(document, tag, pageNum, sortedElements)))

\* the steps processTagExtraction logs and the elements it stores
processTagLogging(lg, document, tag, pageNum, textElements) ==
  Pipe(TagFilter(textElements, tag),
       LAMBDA textElementsInRegion :
         LET filtered == logSteps(lg, <<"Processing tag",
                                        "Filtered text elements in region">>)
             stored == storeExtractedElements(
                         filtered, ResultId(document, pageNum, tag),
                         textElementsInRegion)
         IN  IF Len(textElementsInRegion) = 0
             THEN logStep(stored, "No text elements found in tag region")
             ELSE logSteps(stored, <<"Sorted text elements by position",
                                     "Text assembled and cleaned">>))

\* the steps processDocumentExtraction logs up to its first await
PrologueLogging(lg, document) ==
  LET started == logStep(lg, "Processing document")
  IN  IF document.data = Undefined
      THEN logStep(started, "Document skipped - no data")
      ELSE LET probed == IF isArrayBufferDetached(document.data)
                         THEN logStep(started, "Document data was detached")
                         ELSE started
           IN  IF cloneArrayBuffer(document.data).thrown
               THEN logStep(probed, "Buffer cloning failed")
               ELSE logStep(probed, "Extracting text elements from page")

\* processDocumentExtraction up to its first await: either it returns
\* placeholder records, or a clone of the data reaches pdfjs.getDocument
\* (document.data -> documentData -> clonedBufferForExtraction -> safeData
\*  -> dataClone)
DocumentPrologue(document, tagList, pageNum) ==
  IF document.data = Undefined
  THEN [records |-> PlaceholderPerTag(document, tagList, pageNum,
          <<"[Error processing document: No data available]">>, "NO_DATA")]
  ELSE LET documentData == cloneArrayBuffer(document.data)
       IN  IF documentData.thrown
           THEN [records |-> PlaceholderPerTag(document, tagList, pageNum,
                   <<"[Error processing document: Buffer was detached]">>,
                   "BUFFER_DETACHED")]
           ELSE LET clonedBufferForExtraction == cloneArrayBuffer(documentData.value)
                    safeData == cloneArrayBuffer(clonedBufferForExtraction.value)
                    dataClone == cloneArrayBuffer(safeData.value)
                IN  [decode |-> dataClone.value.bytes]

----------------------------------------------------------------------------
(* The ArrayBuffer instances: an instance is an index of heap; the code     *)
(* reads and copies instances and hands one to pdfjs.getDocument            *)

Instance(buffer, owner) == [buffer |-> buffer, owner |-> owner, handed |-> FALSE]

\* the memory a stretch of code runs in, and what it leaves behind
Mem(h, ev) == [heap |-> h, events |-> ev, thrown |-> FALSE]

Event(op, id) == [op |-> op, buffer |-> id]

\* the engine looks at instance id (byteLength, a view on it)
Read(m, id) == [m EXCEPT !.events = Append(@, Event("read", id))]

\* the engine copies the bytes of instance id (new Uint8Array(buffer))
Copy(m, id) == [m EXCEPT !.events = Append(@, Event("clone", id))]

\* a clone that is the buffer it was given
CloneAliased(m, id) ==
  Pipe(Copy(m, id),
       LAMBDA r : IF cloneArrayBuffer(r.heap[id].buffer).thrown
                  THEN [r EXCEPT !.thrown = TRUE]
                  ELSE WithField(r, "value", id))

\* cloneArrayBuffer on instance id: copies it, throws when it is detached,
\* else allocates a new instance that holds the copied bytes
cloneArrayBufferIn(m, id) ==
  Pipe(Copy(m, id),
       LAMBDA r :
         LET c == cloneArrayBuffer(r.heap[id].buffer)
         IN  IF c.thrown
             THEN [r EXCEPT !.thrown = TRUE]
             ELSE WithField(
                    [r EXCEPT !.heap = Append(@, Instance(c.value, "engine"))],
                    "value", Len(r.heap) + 1))

\* pdfjs.getDocument({data}): the instance now belongs to the decoder
getDocument(m, id) ==
  [m EXCEPT !.events = Append(@, Event("decode", id)),
            !.heap[id].handed = TRUE]

\* createPdfLoadingTask(data): clone, then getDocument on the clone
createPdfLoadingTaskIn(m, data) ==
  Pipe(cloneArrayBufferIn(m, data),
       LAMBDA dataClone :
         IF dataClone.thrown THEN dataClone
         ELSE getDocument(dataClone, dataClone.value))

\* the try block of an entry point up to its first await; an exception of
\* the clone ends in the catch of the entry point
CloneAndLoad(m, data) ==
  Pipe(cloneArrayBufferIn(m, data),
       LAMBDA safeData :
         IF safeData.thrown THEN [safeData EXCEPT !.thrown = FALSE]
         ELSE Pipe(createPdfLoadingTaskIn(safeData, safeData.value),
                   LAMBDA loadingTask : [loadingTask EXCEPT !.thrown = FALSE]))

extractTextElementsFromPageIn(m, data) == CloneAndLoad(m, data)

isProbablyScannedPdfIn(m, data) == CloneAndLoad(m, data)

\* extractTextFromRegion: its own clone, then the extractor on that clone
extractTextFromRegionIn(m, data) ==
  Pipe(cloneArrayBufferIn(m, data),
       LAMBDA safeData :
         IF safeData.thrown THEN [safeData EXCEPT !.thrown = FALSE]
         ELSE extractTextElementsFromPageIn(safeData, safeData.value))

\* isArrayBufferDetached on instance id: the probe is a read
isArrayBufferDetachedIn(m, id) == Read(m, id)

\* the data of the document handed to the decoder as it is
ProcessDocumentHandsOwnBuffer(m, data) ==
  getDocument(isArrayBufferDetachedIn(m, data), data)

\* processDocumentExtraction on a document whose data passed validation, up
\* to the await of the extractor: probe, documentData,
\* clonedBufferForExtraction, then the extractor on that clone
processDocumentExtractionIn(m, data) ==
  Pipe(cloneArrayBufferIn(isArrayBufferDetachedIn(m, data), data),
       LAMBDA documentData :
         IF documentData.thrown
         THEN [documentData EXCEPT !.thrown = FALSE]
         ELSE Pipe(cloneArrayBufferIn(documentData, documentData.value),
                   LAMBDA clonedBufferForExtraction :
                     extractTextElementsFromPageIn(
                       clonedBufferForExtraction,
                       clonedBufferForExtraction.value)))

\* one round of the loop of extractTextFromAllDocuments for a document whose
\* data is instance `data` (no instance: the document has no data):
\* validation, then processDocumentExtraction up to the await of the extractor
processDocumentIn(m, data) ==
  IF data \notin DOMAIN m.heap THEN m
  ELSE Pipe(isArrayBufferDetachedIn(m, data),
            LAMBDA probed :
              IF ~validateDocumentData([data |-> probed.heap[data].buffer]).isValid
              THEN probed
              ELSE processDocumentExtractionIn(probed, data))

\* the memory at the moment the caller hands instance `data` to an entry point
Entered(entry, data) ==
  Mem(heap, Append(events, [op |-> "call", entry |-> entry, buffer |-> data]))

\* the instances the documents of a store hold as their data
HeapOf(st) == [i \in DOMAIN st |-> Instance(st[i].data, "caller")]

----------------------------------------------------------------------------
(* The batch: extractTextFromAllDocuments, one action per stretch of code   *)
(* between two suspension points                                            *)

Document == store[documents[di]]

\* the instance document.data refers to; 0 when the document has no data
DocumentData == IF Document.data = Undefined THEN 0 ELSE documents[di]

\* the memory after the round of the loop for the current document, up to
\* the first await of the extractor
Round ==
  processDocumentIn(Entered("extractTextFromAllDocuments", DocumentData),
                    DocumentData)

InMemory(m) == \E r \in {m} : heap' = r.heap /\ events' = r.events

\* a call of extractTextFromAllDocuments(documents, tags) starts
Call ==
  /\ pc \in {"idle", "resolved"}
  /\ pending # <<>>
  /\ documents' = Head(pending).documents
  /\ tags' = Head(pending).tags
  /\ pending' = Tail(pending)
  /\ results' = <<>>
  /\ di' = 1
  /\ pc' = "loop"
  /\ logger' = logStep(startExtraction(logger), "Beginning batch extraction")
  /\ UNCHANGED <<heap, events, store, returned, documentResults,
                 allTextElements, ti, task,
                 decodeCalls, arg, out>>

\* the validation branch that leaves the whole loop
ValidationFailsBreak ==
  /\ pc = "loop"
  /\ di <= Len(documents)
  /\ ~validateDocumentData(Document).isValid
  /\ results' = results \o ValidationRecords(Document, tags,
                                             validateDocumentData(Document))
  /\ di' = Len(documents) + 1
  /\ logger' = logStep(logger, "Document validation failed")
  /\ InMemory(Round)
  /\ UNCHANGED <<store, pending, returned, pc, documents, tags,
                 documentResults, allTextElements, ti, task, decodeCalls,
                 arg, out>>

\* the validation branch that pushes nothing
ValidationFailsSilent ==
  /\ pc = "loop"
  /\ di <= Len(documents)
  /\ ~validateDocumentData(Document).isValid
  /\ di' = di + 1
  /\ logger' = logStep(logger, "Document validation failed")
  /\ InMemory(Round)
  /\ UNCHANGED <<store, pending, returned, pc, documents, tags,
                 results,
                 documentResults, allTextElements, ti, task, decodeCalls,
                 arg, out>>

\* the document fails validation: one record per tag, then `continue`
ValidationFails ==
  /\ pc = "loop"
  /\ di <= Len(documents)
  /\ ~validateDocumentData(Document).isValid
  /\ results' = results \o ValidationRecords(Document, tags,
                                             validateDocumentData(Document))
  /\ di' = di + 1
  /\ logger' = logStep(logger, "Document validation failed")
  /\ InMemory(Round)
  /\ UNCHANGED <<store, pending, returned, pc, documents, tags,
                 documentResults, allTextElements, ti, task, decodeCalls,
                 arg, out>>

\* the document passes validation: processDocumentExtraction runs up to
\* `await loadingTask.promise` inside extractTextElementsFromPage
StartDocument ==
  /\ pc = "loop"
  /\ di <= Len(documents)
  /\ validateDocumentData(Document).isValid
  /\ LET p == DocumentPrologue(Document, tags, 1)
     IN  IF "records" \in DOMAIN p
         THEN /\ results' = results \o p.records
              /\ di' = di + 1
              /\ UNCHANGED <<pc, task, decodeCalls>>
         ELSE /\ task' = p.decode
              /\ decodeCalls' = Append(decodeCalls, documents[di])
              /\ pc' = "load"
              /\ UNCHANGED <<results, di>>
  /\ documentResults' = <<>>
  /\ logger' = PrologueLogging(logger, Document)
  /\ InMemory(Round)
  /\ UNCHANGED <<store, pending, returned, documents, tags,
                 allTextElements,
                 ti, arg, out>>

\* loadingTask.promise resolves; getPage(pageNumber) is requested
LoadResolves ==
  /\ pc = "load"
  /\ ~LoadRejects(task)
  /\ pc' = "page"
  /\ UNCHANGED <<heap, events, logger, store, pending, returned, documents,
                 tags, results, di,
                 documentResults, allTextElements, ti, task, decodeCalls,
                 arg, out>>

\* getPage resolves; getTextContent is requested
GetPageResolves ==
  /\ pc = "page"
  /\ ~GetPageRejects(task)
  /\ pc' = "text"
  /\ UNCHANGED <<heap, events, logger, store, pending, returned, documents,
                 tags, results, di,
                 documentResults, allTextElements, ti, task, decodeCalls,
                 arg, out>>

\* the continuation without the test for an empty list
AfterExtractionNoShortCircuit(textElements) ==
  /\ allTextElements' = textElements
  /\ task' = None
  /\ ti' = 1
  /\ pc' = "tags"
  /\ UNCHANGED <<results, di>>
  /\ logger' = logStep(logger, "Text elements extracted")
  /\ UNCHANGED <<heap, events, store, pending, returned, documents, tags,
                 documentResults,
                 decodeCalls, arg, out>>

\* what processDocumentExtraction does with the list the extractor resolved
\* with: placeholders for an empty list, else the loop over the tags starts
AfterExtraction(textElements) ==
  /\ allTextElements' = textElements
  /\ task' = None
  /\ IF Len(textElements) = 0
     THEN /\ results' = results \o NoTextRecords(Document, tags, 1)
          /\ di' = di + 1
          /\ pc' = "loop"
          /\ UNCHANGED ti
     ELSE /\ ti' = 1
          /\ pc' = "tags"
          /\ UNCHANGED <<results, di>>
  /\ logger' = IF Len(textElements) = 0
               THEN logSteps(logger, <<"Text elements extracted",
                                       "No text elements found in document">>)
               ELSE logStep(logger, "Text elements extracted")
  /\ UNCHANGED <<heap, events, store, pending, returned, documents, tags,
                 documentResults,
                 decodeCalls, arg, out>>

\* getTextContent resolves: the elements are built and returned
GetTextContentResolves ==
  /\ pc = "text"
  /\ ~GetTextContentRejects(task)
  /\ AfterExtraction(TextElementsOf(TextContentItems(task), ViewportHeight(task)))

\* a rejection no frame catches: the call rejects
DecoderRejectsUncaught ==
  /\ pc \in {"load", "page", "text"}
  /\ RejectsAt(pc, task)
  /\ pc' = "rejected"
  /\ task' = None
  /\ UNCHANGED <<heap, events, logger, store, pending, returned, documents,
                 tags, results, di,
                 documentResults, allTextElements, ti, decodeCalls, arg, out>>

\* the rejection reaches the catch of processDocumentExtraction
DecoderRejectsToDocumentCatch ==
  /\ pc \in {"load", "page", "text"}
  /\ RejectsAt(pc, task)
  /\ results' = results \o
       PlaceholderPerTag(Document, tags, 1,
                         <<"[Error processing document: ", "Invalid PDF structure", "]">>,
                         "PROCESSING_ERROR")
  /\ di' = di + 1
  /\ pc' = "loop"
  /\ task' = None
  /\ logger' = logStep(logger, "Error processing document")
  /\ UNCHANGED <<heap, events, store, pending, returned, documents,
                 tags, documentResults, allTextElements, ti, decodeCalls,
                 arg, out>>

\* one of the awaited decoder promises rejects: the catch of
\* extractTextElementsFromPage returns the empty list
DecoderRejects ==
  /\ pc \in {"load", "page", "text"}
  /\ RejectsAt(pc, task)
  /\ AfterExtraction(<<>>)

\* a round that takes the elements of its region out of the shared list
ProcessTagConsumesElements ==
  /\ pc = "tags"
  /\ ti <= Len(tags)
  /\ documentResults' =
       Append(documentResults,
              processTagExtraction(Document, tags[ti], 1, allTextElements))
  /\ ti' = ti + 1
  /\ logger' = processTagLogging(logger, Document, tags[ti], 1, allTextElements)
  /\ allTextElements' =
       SelectSeq(allTextElements,
                 LAMBDA element : ~InRegion(element, tags[ti].region))
  /\ UNCHANGED <<heap, events, store, pending, returned, pc, documents, tags,
                 results, di, task, decodeCalls, arg, out>>

\* a round that runs the extractor again for its tag
ProcessTagDecodesAgain ==
  /\ pc = "tags"
  /\ ti <= Len(tags)
  /\ documentResults' =
       Append(documentResults,
              processTagExtraction(Document, tags[ti], 1, allTextElements))
  /\ ti' = ti + 1
  /\ logger' = processTagLogging(logger, Document, tags[ti], 1, allTextElements)
  /\ InMemory(extractTextElementsFromPageIn(Mem(heap, events), DocumentData))
  /\ decodeCalls' = Append(decodeCalls, documents[di])
  /\ UNCHANGED <<store, pending, returned, pc, documents, tags,
                 results, di, allTextElements, task, arg, out>>

\* a round that works on the elements only while the logger records them
ProcessTagThroughLogger ==
  /\ pc = "tags"
  /\ ti <= Len(tags)
  /\ documentResults' =
       Append(documentResults,
              processTagExtraction(Document, tags[ti], 1,
                                   IF logger.isEnabled THEN allTextElements
                                   ELSE <<>>))
  /\ ti' = ti + 1
  /\ logger' = processTagLogging(logger, Document, tags[ti], 1, allTextElements)
  /\ UNCHANGED <<heap, events, store, pending, returned, pc, documents, tags,
                 results, di, allTextElements, task, decodeCalls, arg, out>>

\* one round of the loop over the tags
ProcessTag ==
  /\ pc = "tags"
  /\ ti <= Len(tags)
  /\ documentResults' =
       Append(documentResults,
              processTagExtraction(Document, tags[ti], 1, allTextElements))
  /\ ti' = ti + 1
  /\ logger' = processTagLogging(logger, Document, tags[ti], 1, allTextElements)
  /\ UNCHANGED <<heap, events, store, pending, returned, pc, documents, tags,
                 results, di,
                 allTextElements, task, decodeCalls, arg, out>>

\* the records of the document put in front of the list
FinishDocumentPrepends ==
  /\ pc = "tags"
  /\ ti > Len(tags)
  /\ results' = documentResults \o results
  /\ di' = di + 1
  /\ pc' = "loop"
  /\ UNCHANGED <<heap, events, logger, store, pending, returned, documents,
                 tags, documentResults,
                 allTextElements, ti, task, decodeCalls, arg, out>>

\* the loop over the tags is over: results.push(...documentResults)
FinishDocument ==
  /\ pc = "tags"
  /\ ti > Len(tags)
  /\ results' = results \o documentResults
  /\ di' = di + 1
  /\ pc' = "loop"
  /\ UNCHANGED <<heap, events, logger, store, pending, returned, documents,
                 tags, documentResults,
                 allTextElements, ti, task, decodeCalls, arg, out>>

\* the loop over the documents is over: return results
Return ==
  /\ pc = "loop"
  /\ di > Len(documents)
  /\ returned' = Append(returned, results)
  /\ pc' = "resolved"
  /\ logger' = finishExtraction(logStep(logger, "Extraction complete"))
  /\ UNCHANGED <<heap, events, store, pending, documents, tags, results, di,
                 documentResults, allTextElements, ti, task, decodeCalls,
                 arg, out>>

\* The steps of one call of extractTextFromAllDocuments.  The catch frames
\* of processDocumentExtraction and of the loop body of
\* extractTextFromAllDocuments have no transition here: every decoder
\* rejection is already caught inside extractTextElementsFromPage, and the
\* statements between a passed validation and those frames (the clones of
\* a non-detached buffer, the filter, the sort, the join, the cleanup, the
\* calls of the logger) do not throw on the modelled inputs.
BatchNext ==
  \/ Call
  \/ ValidationFails
  \/ StartDocument
  \/ LoadResolves
  \/ GetPageResolves
  \/ GetTextContentResolves
  \/ DecoderRejects
  \/ ProcessTag
  \/ FinishDocument
  \/ Return

----------------------------------------------------------------------------
(* Inputs of the batch *)

MaxDocs == 2
MaxTags == 2

\* raw item counts of the pages: none, only the empty item, one element,
\* and pages just below, at and above the threshold of the classifier
PageSizes ==
  {0, 1, 2, ScannedThreshold, ScannedThreshold + 1, ScannedThreshold + 2}

BytesSet ==
  {Bytes("empty", 0), Bytes("garbage", 0), Bytes("badpage", 0),
   Bytes("badtext", 0)} \cup {Bytes("pdf", n) : n \in PageSizes}

\* document.data: missing, detached, or a live buffer
DataSet ==
  {Undefined, Buffer(TRUE, Bytes("empty", 0))}
    \cup {Buffer(FALSE, b) : b \in BytesSet}

Doc(i, data) ==
  [id |-> <<"d", ToString(i)>>, name |-> <<"f", ToString(i)>>, data |-> data]

Region(x, y, width, height) ==
  [x |-> x, y |-> y, width |-> width, height |-> height]

\* the whole page, a region off the text, the blank alone, the first two
\* elements of the first line (a region of height 0)
TagCatalogue ==
  << [id |-> <<"t", "1">>, name |-> "all", color |-> "#f00",
      region |-> Region(0, 0, 100, 100)],
     [id |-> <<"t", "2">>, name |-> "off", color |-> "#0f0",
      region |-> Region(60, 60, 10, 10)],
     [id |-> <<"t", "3">>, name |-> "blank", color |-> "#00f",
      region |-> Region(40, 0, 5, 5)],
     [id |-> <<"t", "4">>, name |-> "head", color |-> "#ff0",
      region |-> Region(0, 0, 20, 0)] >>

SeqsUpTo(S, n) == UNION {[1..k -> S] : k \in 0..n}

\* tag lists: tags of the catalogue in catalogue order, each at most once
TagLists ==
  {[j \in 1..Len(s) |-> TagCatalogue[s[j]]] :
     s \in {q \in SeqsUpTo(1..Len(TagCatalogue), MaxTags) :
              \A j \in 1..(Len(q) - 1) : q[j] < q[j + 1]}}

Stores(dataSet) ==
  {[i \in 1..Len(f) |-> Doc(i, f[i])] : f \in SeqsUpTo(dataSet, MaxDocs)}

AllOf(st) == [i \in 1..Len(st) |-> i]

Without(s, i) == SubSeq(s, 1, i - 1) \o SubSeq(s, i + 1, Len(s))

BatchInit(st, calls) ==
  /\ store = st
  /\ pending = calls
  /\ returned = <<>>
  /\ pc = "idle"
  /\ documents = <<>>
  /\ tags = <<>>
  /\ results = <<>>
  /\ di = 1
  /\ documentResults = <<>>
  /\ allTextElements = <<>>
  /\ ti = 1
  /\ task = None
  /\ decodeCalls = <<>>
  /\ heap = HeapOf(st)
  /\ events = <<>>
  /\ logger = ExtractionLogger

PureIdle == arg = None /\ out = None

\* one batch over all the documents of the store
Init ==
  /\ \E st \in Stores(DataSet), tl \in TagLists :
       BatchInit(st, <<[documents |-> AllOf(st), tags |-> tl]>>)
  /\ PureIdle

Next == BatchNext

Spec == Init /\ [][Next]_vars

\* documents of the run to completion: without buffer, detached, rejected
\* at each stage of the decoder, a page without and a page with fragments
LiveData ==
  {Undefined, Buffer(TRUE, Bytes("empty", 0)),
   Buffer(FALSE, Bytes("garbage", 0)), Buffer(FALSE, Bytes("badpage", 0)),
   Buffer(FALSE, Bytes("badtext", 0)), Buffer(FALSE, Bytes("pdf", 1)),
   Buffer(FALSE, Bytes("pdf", ScannedThreshold + 2))}

\* the first tags of the catalogue
TagPrefixes == {SubSeq(TagCatalogue, 1, n) : n \in 0..MaxTags}

\* the same batch, its inputs put in place by a first step: documents are
\* uploaded and tags drawn before the extraction is started
InitLive ==
  /\ BatchInit(<<>>, <<>>)
  /\ arg = [setup |-> "open"]
  /\ out = None

Setup ==
  /\ arg = [setup |-> "open"]
  /\ pc = "idle"
  /\ \E st \in Stores(LiveData), tl \in TagPrefixes :
       /\ store' = st
       /\ heap' = HeapOf(st)
       /\ pending' = <<[documents |-> AllOf(st), tags |-> tl]>>
  /\ arg' = None
  /\ UNCHANGED <<returned, pc, documents, tags, results, di, documentResults,
                 allTextElements, ti, task, decodeCalls, out,
                 events, logger>>

NextLive == Setup \/ BatchNext

\* the event loop runs every continuation of the call that is ready, and the
\* decoder settles each of its promises
FairSpec == InitLive /\ [][NextLive]_vars /\ WF_vars(BatchNext)

----------------------------------------------------------------------------
(* Properties of one batch *)

Resolved == pc = "resolved"

\* the fragments the extractor yields for page 1 of a live buffer
PageElements(data) ==
  TextElementsOf(TextContentItems(data.bytes), ViewportHeight(data.bytes))

\* the document's buffer is there, is live, and the decoder accepts it
Decodable(data) ==
  /\ data # Undefined
  /\ ~data.detached
  /\ data.bytes.form = "pdf"

DecodeRaises(data) ==
  /\ data # Undefined
  /\ ~data.detached
  /\ data.bytes.form \in {"garbage", "badpage", "badtext"}

\* positions in list of the records of document i and tag j of the call
RecordsOf(list, i, j) ==
  {k \in DOMAIN list : /\ list[k].documentId = store[documents[i]].id
                       /\ list[k].tagId = tags[j].id}

HasCode(r, code) == "errorCode" \in DOMAIN r /\ r.errorCode = code

AnchorInside(e, r) ==
  /\ r.x <= e.position.x /\ e.position.x <= r.x + r.width
  /\ r.y <= e.position.y /\ e.position.y <= r.y + r.height

\* every record the call holds or has handed out
AllRecords ==
  {results[k] : k \in DOMAIN results}
    \cup {documentResults[k] : k \in DOMAIN documentResults}
    \cup UNION {{returned[c][k] : k \in DOMAIN returned[c]} : c \in DOMAIN returned}

\* C2: the resolved list holds exactly one record for every (document, tag)
\* pair, so its length is |documents| x |tags|, whatever the documents are
C2_OneRecordPerPair ==
  Resolved =>
    LET list == returned[Len(returned)]
    IN  /\ Len(list) = Len(documents) * Len(tags)
        /\ \A i \in DOMAIN documents, j \in DOMAIN tags :
             Cardinality(RecordsOf(list, i, j)) = 1

\* a batch of a document without buffer and an undecodable one, two tags
C2_Witness ==
  /\ Resolved
  /\ Len(documents) = 2 /\ Len(tags) = 2
  /\ store[1].data = Undefined
  /\ DecodeRaises(store[2].data)
  /\ Len(returned[1]) = 4

\* C4: a started batch eventually resolves with its result list, and no
\* exception ever escapes the call
C4_AlwaysResolves ==
  /\ [](pc # "rejected")
  /\ (pc = "loop") ~> (Resolved /\ Len(returned) = 1)

\* a batch resolved although the decoder rejected one of its documents
C4_Witness ==
  /\ Resolved
  /\ Len(returned) = 1
  /\ \E i \in DOMAIN documents :
       /\ DecodeRaises(store[documents[i]].data)
       /\ \E c \in DOMAIN decodeCalls : decodeCalls[c] = documents[i]
  /\ \E i \in DOMAIN documents : Decodable(store[documents[i]].data)

C6_EmptyRegion ==
  Resolved =>
    \A i \in DOMAIN documents, j \in DOMAIN tags :
      LET data == store[documents[i]].data
      IN  (/\ Decodable(data)
           /\ Len(PageElements(data)) >= ScannedThreshold
           /\ \A e \in DOMAIN PageElements(data) :
                ~AnchorInside(PageElements(data)[e], tags[j].region))
          => /\ RecordsOf(results, i, j) # {}
             /\ \A k \in RecordsOf(results, i, j) :
                  /\ HasCode(results[k], "EMPTY_REGION")
                  /\ results[k].extractedText = <<"[No text found in this region]">>
                  /\ "textElements" \in DOMAIN results[k]
                  /\ results[k].textElements = <<>>

\* a page above the threshold with a tag on its text and a tag off it
C6_Witness ==
  /\ Resolved
  /\ Len(documents) = 1 /\ Len(tags) = 2
  /\ Decodable(store[1].data)
  /\ Len(PageElements(store[1].data)) >= ScannedThreshold
  /\ "errorCode" \notin DOMAIN results[1]
  /\ HasCode(results[2], "EMPTY_REGION")

\* C7: no record of a batch has an empty extractedText
C7_TextNeverEmpty ==
  \A r \in AllRecords : r.extractedText # <<>> /\ r.extractedText # <<"">>

\* every kind of record in one list: validation failure, page without text,
\* empty region, and a success whose text is blank after the clean-up
C7_Witness ==
  /\ Resolved
  /\ \E r \in AllRecords :
       "errorCode" \notin DOMAIN r /\ r.extractedText = <<"[No text found]">>
  /\ \E r \in AllRecords : HasCode(r, "EMPTY_REGION")
  /\ \E r \in AllRecords : HasCode(r, "BUFFER_DETACHED")

ErrorCodes ==
  {"NO_DATA", "BUFFER_DETACHED", "NO_TEXT_CONTENT", "EMPTY_REGION",
   "PROCESSING_ERROR", "BATCH_PROCESSING_ERROR"}

\* C8: a record has either no errorCode, and then it is a success record
\* (it carries the fragments its text was built from), or one of the six
\* codes of the taxonomy
C8_ClosedTaxonomy ==
  \A r \in AllRecords :
    IF "errorCode" \in DOMAIN r
    THEN r.errorCode \in ErrorCodes
    ELSE "textElements" \in DOMAIN r /\ r.textElements # <<>>

\* a detached buffer and a buffer without content went through validation
C8_Witness ==
  /\ Resolved
  /\ Len(documents) = 2 /\ Len(tags) > 0
  /\ store[1].data # Undefined /\ store[1].data.detached
  /\ store[2].data # Undefined /\ ~store[2].data.detached
  /\ store[2].data.bytes.form = "empty"
  /\ \A k \in DOMAIN results : HasCode(results[k], "BUFFER_DETACHED")

\* C10: a document without buffer gets one NO_DATA record per tag, one with
\* a detached buffer one BUFFER_DETACHED record per tag; no decode is
\* started for either, and every later document still gets its records
C10_ValidationPlaceholders ==
  Resolved =>
    \A i \in DOMAIN documents :
      LET data == store[documents[i]].data
          code == IF data = Undefined THEN "NO_DATA" ELSE "BUFFER_DETACHED"
      IN  (data = Undefined \/ data.detached) =>
            /\ \A j \in DOMAIN tags :
                 /\ Cardinality(RecordsOf(results, i, j)) = 1
                 /\ \A k \in RecordsOf(results, i, j) : HasCode(results[k], code)
            /\ \A c \in DOMAIN decodeCalls : decodeCalls[c] # documents[i]
            /\ \A l \in DOMAIN documents, j \in DOMAIN tags :
                 l > i => RecordsOf(results, l, j) # {}

\* two documents, the first without buffer, the second valid, one tag: the
\* list has length 2, a placeholder and a normal record
C10_Witness ==
  /\ Resolved
  /\ Len(documents) = 2 /\ Len(tags) = 1
  /\ store[1].data = Undefined
  /\ Decodable(store[2].data)
  /\ Len(returned[1]) = 2
  /\ HasCode(returned[1][1], "NO_DATA")
  /\ "errorCode" \notin DOMAIN returned[1][2]
  /\ decodeCalls = <<2>>

\* C15 as claimed: when the decoder raises on a document's buffer, every
\* tag of the document gets a record with code PROCESSING_ERROR or
\* BATCH_PROCESSING_ERROR
C15_DecodeErrorIsProcessingError ==
  Resolved =>
    \A i \in DOMAIN documents, j \in DOMAIN tags :
      DecodeRaises(store[documents[i]].data) =>
        /\ RecordsOf(results, i, j) # {}
        /\ \A k \in RecordsOf(results, i, j) :
             \/ HasCode(results[k], "PROCESSING_ERROR")
             \/ HasCode(results[k], "BATCH_PROCESSING_ERROR")

\* C15 amended: when the decoder raises on a document's buffer (at the
\* load, the page fetch or the text fetch), every tag of the document gets
\* exactly one placeholder with code NO_TEXT_CONTENT, and every later
\* document still gets its records
C15_DecodeErrorIsNoText ==
  Resolved =>
    \A i \in DOMAIN documents :
      DecodeRaises(store[documents[i]].data) =>
        /\ \A j \in DOMAIN tags :
             /\ Cardinality(RecordsOf(results, i, j)) = 1
             /\ \A k \in RecordsOf(results, i, j) :
                  /\ HasCode(results[k], "NO_TEXT_CONTENT")
                  /\ results[k].extractedText =
                       <<"[No text found in document - may be scanned/image-based PDF]">>
                  /\ "textElements" \notin DOMAIN results[k]
        /\ \A l \in DOMAIN documents, j \in DOMAIN tags :
             l > i => RecordsOf(results, l, j) # {}

\* the decoder raised on the first of two documents, at the page fetch; the
\* second document got a normal record
C15_Witness ==
  /\ Resolved
  /\ Len(documents) = 2 /\ Len(tags) = 2
  /\ store[1].data # Undefined /\ ~store[1].data.detached
  /\ store[1].data.bytes.form = "badpage"
  /\ decodeCalls = <<1, 2>>
  /\ HasCode(results[1], "NO_TEXT_CONTENT")
  /\ HasCode(results[2], "NO_TEXT_CONTENT")
  /\ Decodable(store[2].data)
  /\ "errorCode" \notin DOMAIN results[3]

\* the document passes validation and the extractor resolves with the empty
\* list: the decoder raised, or page 1 holds no item with text
YieldsNoElements(data) ==
  \/ DecodeRaises(data)
  \/ Decodable(data) /\ PageElements(data) = <<>>

\* C22: when the extractor returns the empty list for a document, every tag
\* of the document gets exactly one record with code NO_TEXT_CONTENT and
\* without a textElements field, the loop over the tags (and with it the
\* filter) is not entered for the document, and every later document still
\* gets its records
C22_EmptyListPlaceholders ==
  /\ pc = "tags" =>
       /\ ~YieldsNoElements(Document.data)
       /\ allTextElements # <<>>
  /\ Resolved =>
       \A i \in DOMAIN documents :
         YieldsNoElements(store[documents[i]].data) =>
           /\ \A j \in DOMAIN tags :
                /\ Cardinality(RecordsOf(results, i, j)) = 1
                /\ \A k \in RecordsOf(results, i, j) :
                     /\ HasCode(results[k], "NO_TEXT_CONTENT")
                     /\ "textElements" \notin DOMAIN results[k]
           /\ \E c \in DOMAIN decodeCalls : decodeCalls[c] = documents[i]
           /\ \A l \in DOMAIN documents, j \in DOMAIN tags :
                l > i => RecordsOf(results, l, j) # {}

\* a page without any item, then a page with text: two placeholders, then
\* the records of the second document
C22_Witness ==
  /\ Resolved
  /\ Len(documents) = 2 /\ Len(tags) = 2
  /\ Decodable(store[1].data) /\ store[1].data.bytes.items = 0
  /\ Decodable(store[2].data) /\ PageElements(store[2].data) # <<>>
  /\ decodeCalls = <<1, 2>>
  /\ HasCode(results[1], "NO_TEXT_CONTENT")
  /\ HasCode(results[2], "NO_TEXT_CONTENT")
  /\ "textElements" \notin DOMAIN results[1]
  /\ results[3].documentId = store[2].id
  /\ Len(results) = 4

\* the round of the loop an event belongs to: the last call mark up to it
RoundOf(k) ==
  CHOOSE p \in 1..k :
    /\ events[p].op = "call"
    /\ \A q \in (p + 1)..k : events[q].op # "call"

\* the events with operation op of the round that starts at event p
InRound(p, op) ==
  {k \in DOMAIN events : events[k].op = op /\ RoundOf(k) = p}

\* the rounds of the loop for document i of the call
RoundsFor(i) ==
  {p \in DOMAIN events :
     events[p].op = "call" /\ events[p].buffer = documents[i]}

PassesValidation(i) == validateDocumentData(store[documents[i]]).isValid

\* C23 as claimed: for every document that passes validation the batch
\* makes one clone and one decode call, whatever the number of tags is
C23_OneCloneOneDecode ==
  Resolved =>
    \A i \in DOMAIN documents :
      PassesValidation(i) =>
        /\ Cardinality(RoundsFor(i)) = 1
        /\ \A p \in RoundsFor(i) :
             /\ Cardinality(InRound(p, "clone")) = 1
             /\ Cardinality(InRound(p, "decode")) = 1

\* C23 amended: for every document that passes validation the batch copies
\* the document's own buffer once and makes four copies in all, each of the
\* later three a copy of the copy before it; it calls the decoder exactly
\* once, on the last copy, whatever the number of tags is (0, 1 or many);
\* the fragment list of that decode is the one every tag of the document is
\* filtered from
C23_FourClonesOneDecode ==
  /\ Resolved =>
       \A i \in DOMAIN documents :
         PassesValidation(i) =>
           /\ Cardinality(RoundsFor(i)) = 1
           /\ Cardinality({c \in DOMAIN decodeCalls :
                             decodeCalls[c] = documents[i]}) = 1
           /\ \A p \in RoundsFor(i) :
                LET clones == InRound(p, "clone")
                    last == CHOOSE k \in clones : \A l \in clones : l <= k
                IN  /\ Cardinality(clones) = 4
                    /\ Cardinality({k \in clones :
                                      events[k].buffer = documents[i]}) = 1
                    /\ \A k \in clones :
                         \/ events[k].buffer = documents[i]
                         \/ /\ k - 1 \in clones
                            /\ heap[events[k].buffer].owner = "engine"
                            /\ events[k].buffer # events[k - 1].buffer
                    /\ InRound(p, "decode") = {last + 1}
                    /\ heap[events[last + 1].buffer].owner = "engine"
                    /\ \A k \in clones :
                         events[k].buffer # events[last + 1].buffer
  /\ pc \in {"load", "page", "text"} =>
       /\ events[Len(events)].op = "decode"
       /\ task = heap[events[Len(events)].buffer].buffer.bytes
       /\ task = Document.data.bytes
  /\ pc = "tags" =>
       /\ allTextElements = PageElements(Document.data)
       /\ \A j \in DOMAIN documentResults :
            documentResults[j] =
              processTagExtraction(Document, tags[j], 1,
                                   PageElements(Document.data))

\* one document with text and two tags: four copies, one decode, and both
\* records built from the fragments of that decode
C23_Witness ==
  /\ Resolved
  /\ Len(documents) = 1 /\ Len(tags) = 2
  /\ Decodable(store[1].data) /\ PageElements(store[1].data) # <<>>
  /\ decodeCalls = <<1>>
  /\ Len(heap) = 5
  /\ Cardinality(InRound(1, "clone")) = 4
  /\ Cardinality(InRound(1, "decode")) = 1
  /\ Len(results) = 2
  /\ "errorCode" \notin DOMAIN results[1]

\* C24: the list holds the records document by document and, inside a
\* document, tag by tag: the record of the i-th document and the j-th tag
\* is at place (i - 1) * |tags| + j (counted from 1), whichever path a
\* document takes; a decode starts for a document only when the list holds
\* all the records of the documents before it, and none of its own
C24_ResultOrder ==
  /\ \A k \in DOMAIN results :
       /\ Len(tags) > 0
       /\ results[k].documentId = store[documents[((k - 1) \div Len(tags)) + 1]].id
       /\ results[k].tagId = tags[((k - 1) % Len(tags)) + 1].id
  /\ pc \in {"loop", "load", "page", "text", "tags"} =>
       Len(results) = (di - 1) * Len(tags)
  /\ pc \in {"load", "page", "text", "tags"} =>
       /\ decodeCalls # <<>>
       /\ decodeCalls[Len(decodeCalls)] = documents[di]
  /\ \A c \in DOMAIN decodeCalls, d \in DOMAIN decodeCalls :
       c < d => decodeCalls[c] < decodeCalls[d]
  /\ Resolved =>
       /\ returned[Len(returned)] = results
       /\ Len(results) = Len(documents) * Len(tags)

\* a document without data, then a document with text, two tags: the list
\* holds the two placeholders, then the two records of the second document
C24_Witness ==
  /\ Resolved
  /\ Len(documents) = 2 /\ Len(tags) = 2
  /\ store[1].data = Undefined
  /\ Decodable(store[2].data) /\ PageElements(store[2].data) # <<>>
  /\ HasCode(results[1], "NO_DATA") /\ HasCode(results[2], "NO_DATA")
  /\ results[2].tagId = tags[2].id
  /\ results[3].documentId = store[2].id /\ results[3].tagId = tags[1].id
  /\ results[4].documentId = store[2].id /\ results[4].tagId = tags[2].id

\* C26: the probe answers true exactly for a buffer that a consuming
\* operation has detached, also for a buffer of length 0, so a record has
\* the code BUFFER_DETACHED only if the data of its document is detached
C26_DetachedOnlyIfConsumed ==
  \A i \in DOMAIN documents, j \in DOMAIN tags :
    \A k \in RecordsOf(results, i, j) :
      HasCode(results[k], "BUFFER_DETACHED") =>
        store[documents[i]].data.detached

----------------------------------------------------------------------------
(* Fault isolation: the same batch with and without a failing document *)

\* documents of the comparison: the failing kinds and three pages
IsolationData ==
  {Buffer(TRUE, Bytes("empty", 0)), Buffer(FALSE, Bytes("garbage", 0)),
   Buffer(FALSE, Bytes("badpage", 0)), Buffer(FALSE, Bytes("badtext", 0)),
   Buffer(FALSE, Bytes("pdf", 1)), Buffer(FALSE, Bytes("pdf", 2)),
   Buffer(FALSE, Bytes("pdf", ScannedThreshold + 2))}

Fails(data) == data # Undefined /\ (data.detached \/ DecodeRaises(data))

\* a first call on all documents, a second one on all but a failing one
InitIsolation ==
  /\ \E st \in Stores(IsolationData), tl \in TagLists :
       \E i \in DOMAIN st :
         /\ Fails(st[i].data)
         /\ BatchInit(st, <<[documents |-> AllOf(st), tags |-> tl],
                            [documents |-> Without(AllOf(st), i), tags |-> tl]>>)
         /\ arg = [failed |-> i]
  /\ out = None

SpecIsolation == InitIsolation /\ [][Next]_vars

\* C3: when document i fails (detached buffer or a decode that raises), the
\* batch holds, for every later document, the records that the batch
\* without document i returns for it
C3_FaultIsolation ==
  (Resolved /\ Len(returned) = 2) =>
    LET i == arg.failed
        n == Len(store)
        T == Len(tags)
    IN  /\ Len(returned[1]) >= n * T
        /\ \A l \in (i + 1)..n, j \in 1..T :
             /\ returned[1][(l - 1) * T + j].documentId = store[l].id
             /\ returned[1][(l - 1) * T + j] = returned[2][(l - 2) * T + j]

\* the first of two documents is detached, the second yields a normal record
C3_Witness ==
  /\ Resolved /\ Len(returned) = 2
  /\ arg.failed = 1
  /\ Len(store) = 2 /\ Len(tags) = 2
  /\ store[1].data.detached
  /\ Decodable(store[2].data)
  /\ "errorCode" \notin DOMAIN returned[1][3]
  /\ returned[1][3] = returned[2][1]

----------------------------------------------------------------------------
(* The region filter on its own *)

MaxFilterLen == 2

\* fragments on a 3 x 3 grid of anchors, each 2 wide and 1 high
GridElements ==
  {[text |-> <<"a">>, position |-> [x |-> x, y |-> y], width |-> 2,
    height |-> 1, fontSize |-> 1, fontName |-> "unknown"] :
     x \in 0..2, y \in 0..2}

GridRegions == {Region(x, y, w, h) : x \in 0..1, y \in 0..1, w \in 0..1, h \in 0..1}

InitFilter ==
  /\ BatchInit(<<>>, <<>>)
  /\ \E l \in SeqsUpTo(GridElements, MaxFilterLen), r \in GridRegions :
       arg = [elements |-> l, region |-> r]
  /\ out = None

\* both filters of the code applied to the same list and region
ApplyFilter ==
  /\ out = None
  /\ out' = [util |-> filterElementsByRegion(arg.elements, arg.region),
             inline |-> TagFilter(arg.elements, [region |-> arg.region])]
  /\ UNCHANGED <<arg, batchVars>>

SpecFilter == InitFilter /\ [][ApplyFilter]_vars

\* C1: a fragment is in the filter output iff its anchor lies in the region,
\* all four edges inclusive, whatever its own extent; the output keeps the
\* retained fragments in input order.  Stated on indices: the i-th input
\* fragment whose anchor is inside is the output element whose position is
\* the number of inside fragments up to i, and the output has no others.
C1_FilterCorrect ==
  out # None =>
    LET L == arg.elements
        R == arg.region
        K == {i \in DOMAIN L :
                /\ R.x <= L[i].position.x /\ L[i].position.x <= R.x + R.width
                /\ R.y <= L[i].position.y /\ L[i].position.y <= R.y + R.height}
        Rank(i) == Cardinality({k \in K : k <= i})
    IN  \A o \in {out.util, out.inline} :
          /\ Len(o) = Cardinality(K)
          /\ \A i \in K : o[Rank(i)] = L[i]

\* a fragment that starts left of the region and reaches into it is dropped,
\* one anchored on the right and bottom edge is kept
C1_Witness ==
  /\ out # None
  /\ Len(arg.elements) = 2
  /\ out.util = <<arg.elements[2]>>
  /\ out.inline = out.util
  /\ arg.elements[2].position.x = arg.region.x + arg.region.width
  /\ arg.elements[2].position.y = arg.region.y + arg.region.height
  /\ arg.region.width > 0
  /\ arg.elements[1].position.x < arg.region.x
  /\ arg.elements[1].position.x + arg.elements[1].width >= arg.region.x
  /\ arg.elements[1].position.y = arg.region.y

----------------------------------------------------------------------------
(* The text normalizer on its own *)

MaxTextLen == 5

InitNormalize ==
  /\ BatchInit(<<>>, <<>>)
  /\ arg \in SeqsUpTo({"a", SP, NL}, MaxTextLen)
  /\ out = None

Normalize ==
  /\ out = None
  /\ out' = [once |-> Cleanup(arg)]
  /\ UNCHANGED <<arg, batchVars>>

NormalizeAgain ==
  /\ out # None
  /\ DOMAIN out = {"once"}
  /\ out' = [once |-> out.once, twice |-> Cleanup(out.once)]
  /\ UNCHANGED <<arg, batchVars>>

SpecNormalize == InitNormalize /\ [][Normalize \/ NormalizeAgain]_vars

\* C9: the normalizer is idempotent: normalizing the normalized text of any
\* string of letters, spaces and newlines gives that normalized text again
C9_NormalizeIdempotent ==
  (out # None /\ "twice" \in DOMAIN out) => out.twice = out.once

\* C19: a run of whitespace of the input that lies between two characters
\* that are not whitespace and holds three or more newlines is, in the
\* output, exactly two newlines between those two characters
C19_NewlineRunsCollapse ==
  out # None =>
    \A i \in DOMAIN arg, j \in DOMAIN arg :
      (/\ i < j
       /\ ~IsWhitespace(arg[i]) /\ ~IsWhitespace(arg[j])
       /\ \A k \in (i + 1)..(j - 1) : IsWhitespace(arg[k])
       /\ CountNewlines(arg, i + 1, j - i - 1) >= 3)
      => \E p \in 1..(Len(out.once) - 3) :
           SubSeq(out.once, p, p + 3) = <<arg[i], NL, NL, arg[j]>>

\* a text with a run of mixed blanks and newlines inside and blanks around
C9_Witness ==
  /\ out # None
  /\ "twice" \in DOMAIN out
  /\ arg = <<SP, "a", NL, SP, "a">>
  /\ out.once = <<"a", SP, "a">>
  /\ out.twice = out.once

----------------------------------------------------------------------------
(* Buffer ownership: the ArrayBuffer instances that the four entry points   *)
(* read, allocate and hand to pdfjs.getDocument.  An instance is an index   *)
(* of heap; the decoder's worker detaches an instance handed to it at some  *)
(* later time.                                                              *)

MaxCalls == 3

EntryPoints ==
  {"extractTextFromAllDocuments", "extractTextFromRegion",
   "extractTextElementsFromPage", "isProbablyScannedPdf"}

CallerInstances == {id \in DOMAIN heap : heap[id].owner = "caller"}

Calls == {k \in DOMAIN events : events[k].op = "call"}

\* a call of an entry point that leaves the memory m at its first suspension
Enter(m) ==
  /\ Cardinality(Calls) < MaxCalls
  /\ heap' = m.heap
  /\ events' = m.events
  /\ UNCHANGED <<store, pending, returned, pc, documents, tags, results, di,
                 documentResults, allTextElements, ti, task, decodeCalls,
                 arg, out, logger>>

CallExtractElements ==
  \E data \in CallerInstances :
    Enter(extractTextElementsFromPageIn(
            Entered("extractTextElementsFromPage", data), data))

CallExtractRegion ==
  \E data \in CallerInstances :
    Enter(extractTextFromRegionIn(Entered("extractTextFromRegion", data), data))

CallIsProbablyScanned ==
  \E data \in CallerInstances :
    Enter(isProbablyScannedPdfIn(Entered("isProbablyScannedPdf", data), data))

CallBatchDocument ==
  \E data \in CallerInstances \cup {0} :
    Enter(processDocumentIn(Entered("extractTextFromAllDocuments", data), data))

\* the decoder's worker takes over an instance it was handed: the instance
\* is detached from then on, and so is the data of the document that refers
\* to it
WorkerTransfers ==
  /\ \E id \in DOMAIN heap :
       /\ heap[id].handed
       /\ ~heap[id].buffer.detached
       /\ heap' = [heap EXCEPT ![id].buffer.detached = TRUE]
       /\ store' = IF id \in DOMAIN store /\ heap[id].owner = "caller"
                   THEN [store EXCEPT ![id].data.detached = TRUE]
                   ELSE store
  /\ UNCHANGED <<pending, returned, pc, documents, tags, results, di,
                 documentResults, allTextElements, ti, task, decodeCalls,
                 arg, out, events, logger>>

\* what the caller holds next to a document: a buffer that is already
\* detached, one without content, one the decoder rejects
CallerBuffers ==
  {Buffer(TRUE, Bytes("empty", 0)), Buffer(FALSE, Bytes("empty", 0)),
   Buffer(FALSE, Bytes("garbage", 0))}

InitOwnership ==
  /\ store = <<>> /\ pending = <<>> /\ returned = <<>> /\ pc = "idle"
  /\ documents = <<>> /\ tags = <<>> /\ results = <<>> /\ di = 1
  /\ documentResults = <<>> /\ allTextElements = <<>> /\ ti = 1
  /\ task = None /\ decodeCalls = <<>>
  /\ PureIdle
  /\ \E b \in CallerBuffers :
       heap = <<Instance(Buffer(FALSE, Bytes("pdf", 2)), "caller"),
                Instance(b, "caller")>>
  /\ events = <<>>
  /\ logger = ExtractionLogger

NextOwnership ==
  \/ CallExtractElements
  \/ CallExtractRegion
  \/ CallIsProbablyScanned
  \/ CallBatchDocument
  \/ WorkerTransfers

SpecOwnership == InitOwnership /\ [][NextOwnership]_vars

Decodes == {k \in DOMAIN events : events[k].op = "decode"}

\* C11: no instance is handed to getDocument twice, an instance of the
\* caller is never handed to it (so the decoder never detaches one), and
\* after an instance is handed over the engine does not touch it again
C11_BufferOwnership ==
  /\ \A i \in Decodes, j \in Decodes :
       i # j => events[i].buffer # events[j].buffer
  /\ \A i \in Decodes : heap[events[i].buffer].owner = "engine"
  /\ \A id \in CallerInstances : ~heap[id].handed
  /\ \A i \in Decodes, j \in DOMAIN events :
       (j > i /\ events[j].op # "call") => events[j].buffer # events[i].buffer

\* the same buffer of the caller went through the batch and through a
\* direct extraction; both decodes took place and the worker has detached
\* the clones, while the caller's buffer is as it was
C11_Witness ==
  /\ Cardinality(Decodes) >= 2
  /\ \E i \in Calls, j \in Calls :
       /\ i < j
       /\ events[i].buffer = 1 /\ events[j].buffer = 1
       /\ events[i].entry = "extractTextFromAllDocuments"
       /\ events[j].entry = "extractTextFromRegion"
  /\ ~heap[1].buffer.detached
  /\ \A k \in Decodes : heap[events[k].buffer].buffer.detached

----------------------------------------------------------------------------
(* The reconstructor on its own: sort, concatenation loop, clean-up *)

MaxFragments == 2

\* formatTextElements(elements)
formatTextElements(elements) ==
  IF Len(elements) = 0 THEN <<>>
  ELSE Pipe(Pipe(Pipe(elements, SortElements), Concatenate), Cleanup)

Fragment(text, x, y, width, height) ==
  [text |-> text, position |-> [x |-> x, y |-> y], width |-> width,
   height |-> height, fontSize |-> height, fontName |-> "unknown"]

\* fragments 10 high around the thresholds of the loop: gaps of 1 and 2
\* against widths of 5 and 10, rows 12, 13, 15, 25 and 26 below the first
FragmentSet ==
  {Fragment(IF x = 0 THEN <<"A">> ELSE <<"B">>, x, y, w, 10) :
     x \in {0, 6, 7, 20}, y \in {0, 12, 13, 15, 25, 26}, w \in {5, 10}}

InitReconstruct ==
  /\ BatchInit(<<>>, <<>>)
  /\ arg \in SeqsUpTo(FragmentSet, MaxFragments)
  /\ out = None

\* the stages of formatTextElements on arg, and processTagExtraction on arg
\* as the fragment list of a page with a tag that spans the page
Reconstruct ==
  /\ out = None
  /\ out' = [sorted |-> SortElements(arg),
             raw |-> Concatenate(SortElements(arg)),
             formatted |-> formatTextElements(arg),
             record |-> processTagExtraction(Doc(1, Undefined), TagCatalogue[1],
                                             1, arg)]
  /\ UNCHANGED <<arg, batchVars>>

SpecReconstruct == InitReconstruct /\ [][Reconstruct]_vars

\* the claimed separator in front of cur when prev comes before it
BreakOf(prev, cur) ==
  LET yDiff == Abs(cur.position.y - prev.position.y)
  IN  IF 10 * yDiff > 25 * cur.height THEN <<NL, NL>>
      ELSE IF 10 * yDiff > 12 * cur.height THEN <<NL>>
      ELSE <<>>

GapOf(prev, cur) ==
  IF 10 * (cur.position.x - (prev.position.x + prev.width)) > 3 * cur.width
  THEN <<SP>> ELSE <<>>

\* number of characters of the raw text in front of the text of sorted[k]
RECURSIVE TextStart(_, _)
TextStart(sorted, k) ==
  IF k = 1 THEN 0
  ELSE TextStart(sorted, k - 1) + Len(sorted[k - 1].text)
         + Len(IF BreakOf(sorted[k - 1], sorted[k]) # <<>>
               THEN BreakOf(sorted[k - 1], sorted[k])
               ELSE GapOf(sorted[k - 1], sorted[k]))

\* what the raw text holds between the texts of sorted[k - 1] and sorted[k]
Between(raw, sorted, k) ==
  SubSeq(raw, TextStart(sorted, k - 1) + Len(sorted[k - 1].text) + 1,
         TextStart(sorted, k))

FragmentA == Fragment(<<"A">>, 0, 0, 5, 10)
FragmentB == Fragment(<<"B">>, 20, 0, 5, 10)

\* C12: between two consecutive fragments of the sorted list that get no
\* line or paragraph break, the loop emits one space if
\* cur.x - (prev.x + prev.width) > 0.3 * cur.width and nothing otherwise;
\* A at (0,0) and B at (20,0), both 5 wide and 10 high, give the text 'A B'
C12_SpacingRule ==
  out # None =>
    /\ \A k \in 2..Len(out.sorted) :
         BreakOf(out.sorted[k - 1], out.sorted[k]) = <<>> =>
           Between(out.raw, out.sorted, k) = GapOf(out.sorted[k - 1], out.sorted[k])
    /\ Len(out.sorted) > 0 =>
         /\ TextStart(out.sorted, Len(out.sorted)) + 1 = Len(out.raw)
         /\ \A k \in 1..Len(out.sorted) :
              out.raw[TextStart(out.sorted, k) + 1] = out.sorted[k].text[1]
    /\ arg \in {<<FragmentA, FragmentB>>, <<FragmentB, FragmentA>>} =>
         /\ out.formatted = <<"A", SP, "B">>
         /\ out.record.extractedText = <<"A", SP, "B">>

\* the pair of the example, and a pair one unit apart that gets no space
C12_Witness ==
  /\ out # None
  /\ arg = <<FragmentB, FragmentA>>
  /\ out.sorted = <<FragmentA, FragmentB>>
  /\ out.raw = <<"A", SP, "B">>

\* C13: in front of cur the raw text gets two newlines if
\* |cur.y - prev.y| > 2.5 * cur.height, else one newline if it is
\* > 1.2 * cur.height, else what the spacing rule gives, which is no newline;
\* a yDiff of 15 at height 10 gives one newline
C13_BreakRule ==
  out # None =>
    /\ \A k \in 2..Len(out.sorted) :
         LET prev == out.sorted[k - 1]
             cur == out.sorted[k]
             yDiff == Abs(cur.position.y - prev.position.y)
             sep == Between(out.raw, out.sorted, k)
         IN  /\ 10 * yDiff > 25 * cur.height => sep = <<NL, NL>>
             /\ (10 * yDiff > 12 * cur.height /\ 10 * yDiff <= 25 * cur.height)
                  => sep = <<NL>>
             /\ 10 * yDiff <= 12 * cur.height => sep \in {<<>>, <<SP>>}
             /\ (yDiff = 15 /\ cur.height = 10) => sep = <<NL>>
    /\ Len(out.raw) =
         IF Len(out.sorted) = 0 THEN 0
         ELSE TextStart(out.sorted, Len(out.sorted)) + 1

\* two fragments 15 apart at height 10: one newline between them
C13_Witness ==
  /\ out # None
  /\ Len(out.sorted) = 2
  /\ out.sorted[2].position.y - out.sorted[1].position.y = 15
  /\ out.sorted[2].height = 10
  /\ out.raw = out.sorted[1].text \o <<NL>> \o out.sorted[2].text

\* C14: in the extractedText of a success record two fragments that are
\* consecutive in the sorted list and a line break apart have one newline
\* between their texts, and two newlines when a paragraph break apart
C14_BreaksSurvive ==
  (out # None /\ "errorCode" \notin DOMAIN out.record) =>
    \A k \in 2..Len(out.sorted) :
      LET break == BreakOf(out.sorted[k - 1], out.sorted[k])
      IN  break # <<>> =>
            /\ Len(out.record.extractedText) >= TextStart(out.sorted, k)
            /\ Between(out.record.extractedText, out.sorted, k) = break

----------------------------------------------------------------------------
(* extractTextElementsFromPage and isProbablyScannedPdf called directly *)

MaxItems == 8

\* the threshold taken as inclusive
ScannedAnswerAtMost(items) == Len(items) <= ScannedThreshold

\* textContent.items.length < 5
ScannedAnswer(items) == Len(items) < ScannedThreshold

DirectEntries == {"extractTextElementsFromPage", "isProbablyScannedPdf"}

\* what the catch block of the entry point returns
CatchValue(entry) ==
  IF entry = "extractTextElementsFromPage" THEN [value |-> <<>>]
  ELSE [value |-> FALSE]

\* the buffers handed to a direct call: detached, rejected by the decoder at
\* one of its stages, or a document whose page 1 has 0..MaxItems items
DirectData ==
  {Buffer(TRUE, Bytes("empty", 0))}
    \cup {Buffer(FALSE, Bytes(f, 0)) : f \in {"empty", "garbage", "badpage", "badtext"}}
    \cup {Buffer(FALSE, Bytes("pdf", n)) : n \in 0..MaxItems}

InitDirect ==
  /\ BatchInit(<<>>, <<>>)
  /\ arg \in [entry : DirectEntries, data : DirectData]
  /\ out = None

\* the entry point runs to its first await: safeData, then dataClone inside
\* createPdfLoadingTask; a clone that throws ends in the catch block
CallDirect ==
  /\ pc = "idle"
  /\ out = None
  /\ "entry" \in DOMAIN arg
  /\ LET safeData == cloneArrayBuffer(arg.data)
     IN  IF safeData.thrown
         THEN /\ out' = CatchValue(arg.entry)
              /\ pc' = "resolved"
              /\ UNCHANGED task
         ELSE LET dataClone == cloneArrayBuffer(safeData.value)
              IN  /\ task' = dataClone.value.bytes
                  /\ pc' = "load"
                  /\ UNCHANGED out
  /\ UNCHANGED <<heap, events, logger, store, pending, returned, documents,
                 tags, results, di, documentResults, allTextElements, ti,
                 decodeCalls, arg>>

\* getTextContent resolves: the entry point builds its value and returns
DirectResolves ==
  /\ pc = "text"
  /\ ~GetTextContentRejects(task)
  /\ out' = [value |->
               IF arg.entry = "extractTextElementsFromPage"
               THEN TextElementsOf(TextContentItems(task), ViewportHeight(task))
               ELSE ScannedAnswer(TextContentItems(task))]
  /\ pc' = "resolved"
  /\ task' = None
  /\ UNCHANGED <<heap, events, logger, store, pending, returned, documents,
                 tags, results, di, documentResults, allTextElements, ti,
                 decodeCalls, arg>>

\* the rejection leaves the entry point
DirectRejectsUncaught ==
  /\ pc \in {"load", "page", "text"}
  /\ RejectsAt(pc, task)
  /\ pc' = "rejected"
  /\ task' = None
  /\ UNCHANGED <<heap, events, logger, store, pending, returned, documents,
                 tags, results, di, documentResults, allTextElements, ti,
                 decodeCalls, arg, out>>

\* one of the awaited decoder promises rejects: the catch block returns
DirectRejects ==
  /\ pc \in {"load", "page", "text"}
  /\ RejectsAt(pc, task)
  /\ out' = CatchValue(arg.entry)
  /\ pc' = "resolved"
  /\ task' = None
  /\ UNCHANGED <<heap, events, logger, store, pending, returned, documents,
                 tags, results, di, documentResults, allTextElements, ti,
                 decodeCalls, arg>>

NextDirect ==
  \/ CallDirect
  \/ LoadResolves
  \/ GetPageResolves
  \/ DirectResolves
  \/ DirectRejects

SpecDirect == InitDirect /\ [][NextDirect]_vars

\* the clone, the load, the page fetch or the text fetch fails for data
DecodeFails(data) ==
  \/ data.detached
  \/ LoadRejects(data.bytes)
  \/ GetPageRejects(data.bytes)
  \/ GetTextContentRejects(data.bytes)

\* C16: no exception leaves extractTextElementsFromPage; when the decode of
\* the buffer, the page fetch or the text fetch fails, the call resolves
\* with the empty list
C16_ExtractorNeverThrows ==
  ("entry" \in DOMAIN arg /\ arg.entry = "extractTextElementsFromPage") =>
    /\ pc # "rejected"
    /\ (pc \in {"load", "page", "text"} /\ RejectsAt(pc, task)) =>
         ENABLED DirectRejects
    /\ (pc = "resolved" /\ DecodeFails(arg.data)) => out = [value |-> <<>>]

\* the text fetch of a document was rejected and the call resolved with []
C16_Witness ==
  /\ "entry" \in DOMAIN arg
  /\ arg.entry = "extractTextElementsFromPage"
  /\ arg.data.bytes.form = "badtext"
  /\ pc = "resolved"
  /\ out = [value |-> <<>>]

\* C18: isProbablyScannedPdf resolves with true exactly when the buffer
\* decodes and page 1 reports fewer than 5 items, with false when it reports
\* 5 or more (and when the decode fails)
C18_ScannedClassifier ==
  ("entry" \in DOMAIN arg /\ arg.entry = "isProbablyScannedPdf"
     /\ pc = "resolved") =>
    /\ out.value \in BOOLEAN
    /\ out.value <=> (Decodable(arg.data) /\ arg.data.bytes.items < 5)
    /\ (Decodable(arg.data) /\ arg.data.bytes.items >= 5) => out.value = FALSE

\* a page with 4 items is classified as scanned
C18_Witness ==
  /\ "entry" \in DOMAIN arg
  /\ arg.entry = "isProbablyScannedPdf"
  /\ Decodable(arg.data)
  /\ arg.data.bytes.items = 4
  /\ pc = "resolved"
  /\ out = [value |-> TRUE]

----------------------------------------------------------------------------
(* The logger next to the batch: the same call made twice, the logger      *)
(* switched in between                                                     *)

\* documents of the comparison: a detached buffer, an undecodable one, a
\* page without text and a page with text
LoggerData ==
  {Buffer(TRUE, Bytes("empty", 0)), Buffer(FALSE, Bytes("badtext", 0)),
   Buffer(FALSE, Bytes("pdf", 1)), Buffer(FALSE, Bytes("pdf", ScannedThreshold + 2))}

\* the logger before the first call: as constructed, enabled, and either
\* with the steps an earlier batch left behind
LoggerStates ==
  LET used == finishExtraction(logStep(enable(ExtractionLogger),
                                       "Extraction complete"))
  IN  {ExtractionLogger, enable(ExtractionLogger), used, disable(used)}

InitLogger ==
  /\ store \in Stores(LoggerData)
  /\ tags = <<>>
  /\ \E tl \in TagPrefixes :
       pending = <<[documents |-> AllOf(store), tags |-> tl],
                   [documents |-> AllOf(store), tags |-> tl]>>
  /\ returned = <<>> /\ pc = "idle" /\ documents = <<>> /\ results = <<>>
  /\ di = 1 /\ documentResults = <<>> /\ allTextElements = <<>> /\ ti = 1
  /\ task = None /\ decodeCalls = <<>> /\ heap = HeapOf(store)
  /\ events = <<>>
  /\ logger \in LoggerStates
  /\ arg = [initial |-> logger]
  /\ out = None

\* extractionLogger.enable() between the two calls
Enable ==
  /\ pc = "resolved"
  /\ pending # <<>>
  /\ logger' = enable(logger)
  /\ UNCHANGED <<heap, events, store, pending, returned, pc, documents, tags,
                 results, di, documentResults, allTextElements, ti, task,
                 decodeCalls, arg, out>>

\* extractionLogger.disable() between the two calls
Disable ==
  /\ pc = "resolved"
  /\ pending # <<>>
  /\ logger.isEnabled
  /\ logger' = disable(logger)
  /\ UNCHANGED <<heap, events, store, pending, returned, pc, documents, tags,
                 results, di, documentResults, allTextElements, ti, task,
                 decodeCalls, arg, out>>

NextLogger == BatchNext \/ Enable \/ Disable

SpecLogger == InitLogger /\ [][NextLogger]_vars

\* C17: the two calls return the same list, whether the logger was enabled
\* or disabled during either, and whatever steps it held before
C17_LoggerAdvisory ==
  (Resolved /\ Len(returned) = 2) => returned[1] = returned[2]

\* the first call ran with the logger as constructed, the second with the
\* logger enabled: it holds the steps and the elements of the second call,
\* and both lists hold the same success record
C17_Witness ==
  /\ Resolved /\ Len(returned) = 2
  /\ arg.initial = ExtractionLogger
  /\ logger.isEnabled
  /\ "extractedElements" \in DOMAIN logger.metadata
  /\ "endTime" \in DOMAIN logger.metadata
  /\ Len(logger.metadata.processingSteps) > 4
  /\ Len(returned[1]) > 0
  /\ "errorCode" \notin DOMAIN returned[1][1]
  /\ returned[1] = returned[2]

----------------------------------------------------------------------------
(* The sort of the reconstructor on lists of fragments of mixed heights *)

MaxSortLen == 3

\* fragments 8 and 16 high on the rows 0, 4, 8 and 16, at two anchors x
SortSet ==
  {Fragment(<<"a">>, x, y, 2, h) : x \in {0, 1}, y \in {0, 4, 8, 16}, h \in {8, 16}}

InitSort ==
  /\ BatchInit(<<>>, <<>>)
  /\ arg \in SeqsUpTo(SortSet, MaxSortLen)
  /\ out = None

SpecSort == InitSort /\ [][Reconstruct]_vars

\* |a.y - b.y| <= 0.5 * max(a.height, b.height)
SameLine(a, b) ==
  2 * Abs(a.position.y - b.position.y) <= Max(a.height, b.height)

SameLineTransitive(list) ==
  \A i \in DOMAIN list, j \in DOMAIN list, k \in DOMAIN list :
    (SameLine(list[i], list[j]) /\ SameLine(list[j], list[k]))
      => SameLine(list[i], list[k])

\* the fragment at index i of list is read before the one at index j
ReadBefore(list, i, j) ==
  IF SameLine(list[i], list[j])
  THEN \/ list[i].position.x < list[j].position.x
       \/ list[i].position.x = list[j].position.x /\ i < j
  ELSE list[i].position.y < list[j].position.y

\* C20: when the same-line relation is transitive on the fragments, the
\* sorted list holds each input fragment at the place the reading order
\* gives it: behind the fragments of the lines above, behind the fragments
\* of its line with a smaller x, and behind those with the same x that
\* come earlier in the input
C20_ReadingOrder ==
  (out # None /\ SameLineTransitive(arg)) =>
    /\ Len(out.sorted) = Len(arg)
    /\ \A i \in DOMAIN arg :
         out.sorted[1 + Cardinality({j \in DOMAIN arg : j # i /\ ReadBefore(arg, j, i)})]
           = arg[i]

\* three fragments given bottom line first: the sorted list starts with the
\* two fragments of the upper line, which have the same x and different y
\* and keep their input order
C20_Witness ==
  /\ out # None
  /\ Len(arg) = 3
  /\ SameLineTransitive(arg)
  /\ ~SameLine(arg[1], arg[2])
  /\ SameLine(arg[2], arg[3])
  /\ arg[2].position.x = arg[3].position.x
  /\ arg[2].position.y > arg[3].position.y
  /\ out.sorted = <<arg[2], arg[3], arg[1]>>

----------------------------------------------------------------------------
(* The comparator on slanted text: fragments of one height whose rows are   *)
(* half a height apart                                                      *)

MaxSlantLen == 3

\* fragments 8 high at three anchors x on the rows 0, 4 and 8
SlantSet ==
  {Fragment(<<"a">>, x, y, 2, 8) : x \in {0, 1, 2}, y \in {0, 4, 8}}

Rotate(s) == IF s = <<>> THEN s ELSE Tail(s) \o <<Head(s)>>

InitSlant ==
  /\ BatchInit(<<>>, <<>>)
  /\ arg \in SeqsUpTo(SlantSet, MaxSlantLen)
  /\ out = None

\* the comparator on every pair of arg, and the sort of arg and of arg
\* given in another order
CompareAndSort ==
  /\ out = None
  /\ out' = [cmp |-> [i \in DOMAIN arg |-> [j \in DOMAIN arg |->
                       Compare(arg[i], arg[j])]],
             sorted |-> SortElements(arg),
             rotated |-> SortElements(Rotate(arg))]
  /\ UNCHANGED <<arg, batchVars>>

SpecSlant == InitSlant /\ [][CompareAndSort]_vars

\* C21: three fragments a, b, c with a on the line of b, b on the line of
\* c, a not on the line of c, a.x < b.x < c.x and c above a: the comparator
\* puts a before b, b before c and c before a; the sorted list then holds a
\* pair the comparator orders the other way round, and the same three
\* fragments given in another order come out in another order
C21_ComparatorCycle ==
  out # None =>
    \A i \in DOMAIN arg, j \in DOMAIN arg, k \in DOMAIN arg :
      (/\ SameLine(arg[i], arg[j]) /\ SameLine(arg[j], arg[k])
       /\ ~SameLine(arg[i], arg[k])
       /\ arg[i].position.x < arg[j].position.x
       /\ arg[j].position.x < arg[k].position.x
       /\ arg[k].position.y < arg[i].position.y)
      => /\ out.cmp[i][j] < 0 /\ out.cmp[j][k] < 0 /\ out.cmp[k][i] < 0
         /\ \E p \in DOMAIN out.sorted, q \in DOMAIN out.sorted :
              p < q /\ Compare(out.sorted[p], out.sorted[q]) > 0
         /\ Len(arg) = 3 => out.sorted # out.rotated

\* a at (0,8), b at (1,4), c at (2,0): the list <<a, b, c>> stays as it is,
\* and so does <<b, c, a>>
C21_Witness ==
  /\ out # None
  /\ arg = <<Fragment(<<"a">>, 0, 8, 2, 8), Fragment(<<"a">>, 1, 4, 2, 8),
             Fragment(<<"a">>, 2, 0, 2, 8)>>
  /\ out.cmp[1][2] < 0 /\ out.cmp[2][3] < 0 /\ out.cmp[3][1] < 0
  /\ out.sorted = arg
  /\ out.rotated = Rotate(arg)

----------------------------------------------------------------------------
(* One tag on one fragment list: processTagExtraction next to               *)
(* extractTextFromRegion behind its await                                   *)

MaxTagElements == 3

\* elementsInRegion.map(el => el.text).join(' ')
RECURSIVE JoinTexts(_)
JoinTexts(elements) ==
  IF elements = <<>> THEN <<>>
  ELSE IF Len(elements) = 1 THEN elements[1].text
  ELSE elements[1].text \o <<SP>> \o JoinTexts(Tail(elements))

\* the default value of the parameter `options`
DefaultOptions ==
  [preserveFormatting |-> TRUE, cleanupText |-> TRUE, ocrFallback |-> TRUE]

\* extractTextFromRegion joining the texts whatever the options say
extractTextFromRegionPlainJoin(textElements, region, options) ==
  Pipe(filterElementsByRegion(textElements, region),
       LAMBDA elementsInRegion :
         IF Len(elementsInRegion) = 0
         THEN IF options.ocrFallback
              THEN <<"[OCR processing would be applied here for scanned documents]">>
              ELSE <<>>
         ELSE Trim(IF options.cleanupText
                   THEN Cleanup(JoinTexts(elementsInRegion))
                   ELSE JoinTexts(elementsInRegion)))

\* extractTextFromRegion from the list the extractor resolved with
extractTextFromRegion(textElements, region, options) ==
  Pipe(filterElementsByRegion(textElements, region),
       LAMBDA elementsInRegion :
         IF Len(elementsInRegion) = 0
         THEN IF options.ocrFallback
              THEN <<"[OCR processing would be applied here for scanned documents]">>
              ELSE <<>>
         ELSE Pipe(IF options.preserveFormatting
                   THEN formatTextElements(elementsInRegion)
                   ELSE JoinTexts(elementsInRegion),
                   LAMBDA extractedText :
                     Trim(IF options.cleanupText THEN Cleanup(extractedText)
                          ELSE extractedText)))

\* fragments 8 high on two rows 20 apart: an "a" at x = 0, a "b" at x = 3,
\* a blank at x = 6
TagElements ==
  {Fragment(IF x = 0 THEN <<"a">> ELSE IF x = 3 THEN <<"b">> ELSE <<SP>>,
            x, y, 2, 8) : x \in {0, 3, 6}, y \in {0, 20}}

\* the first row up to the "b", the page, the second row, the blanks, and
\* a region off the fragments
TagRegions ==
  {Region(0, 0, 3, 0), Region(0, 0, 10, 30), Region(0, 20, 6, 0),
   Region(6, 0, 0, 20), Region(1, 1, 1, 1)}

InitTag ==
  /\ BatchInit(<<>>, <<>>)
  /\ \E l \in SeqsUpTo(TagElements, MaxTagElements), r \in TagRegions :
       arg = [elements |-> l, region |-> r]
  /\ out = None

\* both paths on the same fragment list and region
ExtractTag ==
  /\ out = None
  /\ LET tag == [id |-> <<"t", "1">>, name |-> "tag", color |-> "#f00",
                 region |-> arg.region]
     IN  out' = [record |-> processTagExtraction(Doc(1, Undefined), tag, 1,
                                                 arg.elements),
                 text |-> extractTextFromRegion(arg.elements, arg.region,
                                                DefaultOptions)]
  /\ UNCHANGED <<arg, batchVars>>

SpecTag == InitTag /\ [][ExtractTag]_vars

\* number of places of list that hold e
Count(e, list) == Cardinality({k \in DOMAIN list : list[k] = e})

\* the characters of s that are not whitespace
Letters(s) == SelectSeq(s, LAMBDA c : ~IsWhitespace(c))

\* the texts of the elements one after the other
RECURSIVE TextsOf(_)
TextsOf(elements) ==
  IF elements = <<>> THEN <<>>
  ELSE elements[1].text \o TextsOf(Tail(elements))

\* C25: in a success record the textElements list is not empty, holds every
\* fragment as often as the input holds it when its anchor is in the region
\* and not at all otherwise, and the texts of its fragments, taken in the
\* order of the list, are the text of the record apart from whitespace
C25_TextElementsOfRecord ==
  (out # None /\ "errorCode" \notin DOMAIN out.record) =>
    LET te == out.record.textElements
    IN  /\ te # <<>>
        /\ \A e \in TagElements :
             Count(e, te) = IF AnchorInside(e, arg.region)
                            THEN Count(e, arg.elements) ELSE 0
        /\ Len(te) = Cardinality({k \in DOMAIN arg.elements :
                                    AnchorInside(arg.elements[k], arg.region)})
        /\ IF Letters(TextsOf(te)) = <<>>
           THEN out.record.extractedText = <<"[No text found]">>
           ELSE Letters(out.record.extractedText) = Letters(TextsOf(te))

\* a "b" given twice in front of an "a" of the same row, and a fragment
\* outside the region
C25_Witness ==
  /\ out # None
  /\ arg.region = Region(0, 0, 3, 0)
  /\ arg.elements = <<Fragment(<<"b">>, 3, 0, 2, 8), Fragment(<<"a">>, 0, 0, 2, 8),
                      Fragment(<<"b">>, 3, 0, 2, 8)>>
  /\ out.record.textElements =
       <<Fragment(<<"a">>, 0, 0, 2, 8), Fragment(<<"b">>, 3, 0, 2, 8),
         Fragment(<<"b">>, 3, 0, 2, 8)>>
  /\ out.record.extractedText = <<"a", SP, "b", "b">>

\* C29: when the region holds at least one fragment and the normalized text
\* is not empty, extractTextFromRegion with its default options returns the
\* extractedText of the record processTagExtraction builds from the same
\* fragment list and region
C29_PathsAgree ==
  (/\ out # None
   /\ filterElementsByRegion(arg.elements, arg.region) # <<>>
   /\ Trim(Cleanup(Concatenate(SortElements(
         filterElementsByRegion(arg.elements, arg.region))))) # <<>>) =>
    /\ "errorCode" \notin DOMAIN out.record
    /\ out.text = out.record.extractedText

\* a "b" of the first row given in front of an "a" of the second row: both
\* paths sort, break the line and turn the break into one blank
C29_Witness ==
  /\ out # None
  /\ arg.region = Region(0, 0, 10, 30)
  /\ arg.elements = <<Fragment(<<"a">>, 0, 20, 2, 8), Fragment(<<"b">>, 3, 0, 2, 8),
                      Fragment(<<SP>>, 6, 20, 2, 8)>>
  /\ out.text = <<"b", SP, "a">>
  /\ out.record.extractedText = <<"b", SP, "a">>

----------------------------------------------------------------------------
(* The same batch run twice in succession, while the decoder's worker takes *)
(* over the buffers it was handed                                           *)

\* documents of the two runs: a detached buffer, a buffer of length 0, an
\* undecodable one and a page with text
RepeatData ==
  {Buffer(TRUE, Bytes("empty", 0)), Buffer(FALSE, Bytes("empty", 0)),
   Buffer(FALSE, Bytes("badtext", 0)), Buffer(FALSE, Bytes("pdf", ScannedThreshold + 2))}

InitRepeat ==
  /\ \E st \in Stores(RepeatData), tl \in TagPrefixes :
       /\ BatchInit(st, <<[documents |-> AllOf(st), tags |-> tl],
                          [documents |-> AllOf(st), tags |-> tl]>>)
       /\ arg = [before |-> st]
  /\ out = None

NextRepeat == BatchNext \/ WorkerTransfers

SpecRepeat == InitRepeat /\ [][NextRepeat]_vars

\* C27: the two runs return equal lists; at every moment the data of every
\* document is what it was before the first run (same bytes, detached only
\* if it was), no instance of a document was handed to the decoder, and a
\* record has the code BUFFER_DETACHED in the second run only if it has it
\* in the first
C27_RepeatableBatch ==
  /\ store = arg.before
  /\ \A i \in DOMAIN store :
       /\ heap[i].buffer = arg.before[i].data
       /\ ~heap[i].handed
  /\ (Resolved /\ Len(returned) = 2) =>
       /\ returned[1] = returned[2]
       /\ \A k \in DOMAIN returned[2] :
            HasCode(returned[2][k], "BUFFER_DETACHED") =>
              HasCode(returned[1][k], "BUFFER_DETACHED")

\* both runs decoded the document, the worker has detached the two buffers
\* it was handed, and the second run still returned the success record
C27_Witness ==
  /\ Resolved /\ Len(returned) = 2
  /\ Len(store) = 2 /\ Len(tags) = 1
  /\ Decodable(store[1].data) /\ store[2].data.bytes.form = "badtext"
  /\ Cardinality({id \in DOMAIN heap :
                    heap[id].handed /\ heap[id].buffer.detached}) = 4
  /\ "errorCode" \notin DOMAIN returned[2][1]
  /\ returned[1] = returned[2]

----------------------------------------------------------------------------
(* The ids of the records: documents and tags whose ids are strings of      *)
(* letters, digits and '-'                                                  *)

\* ids as the caller may give them: strings over letters, '1' and '-'
IdSet ==
  {<<"a">>, <<"b">>, <<"c">>, <<"a", "-", "1", "-", "b">>,
   <<"b", "-", "1", "-", "c">>}

IdData ==
  {Undefined, Buffer(FALSE, Bytes("badtext", 0)), Buffer(FALSE, Bytes("pdf", 2))}

\* two documents with different ids and two tags with different ids
InitIds ==
  /\ \E d1 \in IdSet, d2 \in IdSet, t1 \in IdSet, t2 \in IdSet,
        b1 \in IdData, b2 \in IdData :
       /\ d1 # d2 /\ t1 # t2
       /\ BatchInit(<<[id |-> d1, name |-> <<"f", "1">>, data |-> b1],
                      [id |-> d2, name |-> <<"f", "2">>, data |-> b2]>>,
                    <<[documents |-> <<1, 2>>,
                       tags |-> <<[TagCatalogue[1] EXCEPT !.id = t1],
                                  [TagCatalogue[1] EXCEPT !.id = t2]>>]>>)
  /\ PureIdle

SpecIds == InitIds /\ [][BatchNext]_vars

\* C28: two records of one batch that belong to different (document, tag)
\* pairs have different ids
C28_RecordIdsUnique ==
  \A k \in DOMAIN results, l \in DOMAIN results :
    (\/ results[k].documentId # results[l].documentId
     \/ results[k].tagId # results[l].tagId)
    => results[k].id # results[l].id

----------------------------------------------------------------------------
(* One store extracted under two tag lists                                  *)

\* a document without data, one the decoder rejects and one with a page of
\* text
PermuteData ==
  {Undefined, Buffer(FALSE, Bytes("badtext", 0)),
   Buffer(FALSE, Bytes("pdf", ScannedThreshold + 2))}

\* the page, the blank and the head of the page: regions that overlap
PermuteTags == {TagCatalogue[1], TagCatalogue[3], TagCatalogue[4]}

\* the tag lists without a repeated tag
DistinctTagLists ==
  {l \in SeqsUpTo(PermuteTags, MaxTags) :
     \A j \in DOMAIN l, k \in DOMAIN l : l[j] = l[k] => j = k}

\* extractTextFromAllDocuments(documents, first), then
\* extractTextFromAllDocuments(documents, second)
InitPermute ==
  /\ \E st \in Stores(PermuteData), first \in DistinctTagLists, second \in DistinctTagLists :
       /\ BatchInit(st, <<[documents |-> AllOf(st), tags |-> first],
                          [documents |-> AllOf(st), tags |-> second]>>)
       /\ arg = [first |-> first, second |-> second]
  /\ out = None

SpecPermute == InitPermute /\ [][BatchNext]_vars

\* the records of one call stand document by document, and inside a
\* document in the order of the tag list
InListOrder(records, tagList) ==
  /\ Len(records) = Len(store) * Len(tagList)
  /\ \A d \in DOMAIN store, j \in DOMAIN tagList :
       /\ records[(d - 1) * Len(tagList) + j].documentId = store[d].id
       /\ records[(d - 1) * Len(tagList) + j].tagId = tagList[j].id

\* C30: while the tags of a document are processed the shared fragment list
\* stays the list the extractor resolved with; the record of a (document,
\* tag) pair is the same under both tag lists, whichever other tags they
\* hold and wherever the tag stands; the records of a call follow the order
\* of its tag list inside every document, so that a permuted list yields the
\* permuted records
C30_TagIndependence ==
  /\ pc = "tags" => allTextElements = PageElements(Document.data)
  /\ (Resolved /\ Len(returned) = 2) =>
       /\ InListOrder(returned[1], arg.first)
       /\ InListOrder(returned[2], arg.second)
       /\ \A k \in DOMAIN returned[1], l \in DOMAIN returned[2] :
            (/\ returned[1][k].documentId = returned[2][l].documentId
             /\ returned[1][k].tagId = returned[2][l].tagId)
            => returned[1][k] = returned[2][l]

\* the head of the page after the whole page in the first call and before
\* it in the second: both records of the head hold the same text
C30_Witness ==
  /\ Resolved /\ Len(returned) = 2
  /\ Len(store) = 1 /\ Decodable(store[1].data)
  /\ arg.first = <<TagCatalogue[1], TagCatalogue[4]>>
  /\ arg.second = <<TagCatalogue[4], TagCatalogue[1]>>
  /\ "errorCode" \notin DOMAIN returned[1][2]
  /\ returned[1][2].textElements # <<>>
  /\ Len(returned[1][1].textElements) > Len(returned[1][2].textElements)
  /\ returned[2] = <<returned[1][2], returned[1][1]>>

====
